---- MODULE Spec2Model ----
(***************************************************************************)
(* The EPG freshness cache of the IPTV player backend: the epg_sources and *)
(* epg_programs tables, the XMLTV parser, refreshEPGIfNeeded (ensure_fresh)*)
(* and POST /epg/:playlistId/refresh (force_refresh).                      *)
(*                                                                         *)
(* Every awaited D1 statement is one atomic step of the request that       *)
(* issues it; the synchronous code that follows the await (a return, the   *)
(* staleness test) belongs to the same step.  Requests of different        *)
(* callers interleave at the awaits.                                       *)
(*                                                                         *)
(* Time is counted in units of 30 minutes: Date.now() is the variable      *)
(* clock, 60*60*1000 ms is OneHour = 2 and 48*60*60*1000 ms is             *)
(* FortyEightHours = 96.                                                   *)
(*                                                                         *)
(* A nullable column or an optional value is a sequence of length at most  *)
(* one: << >> is NULL / undefined, <<v>> is the value v.  A string built   *)
(* by the program is a sequence of tokens.                                 *)
(*                                                                         *)
(* The functions the cache is fed by and read through are applied on their *)
(* own in further specifications: parseXMLTVDateTime (SpecTime), parseXMLTV*)
(* on textual timestamps (SpecGuide), getNowNextPrograms (SpecMatch), the  *)
(* merge of the channels route (SpecMerge) and parseM3U (SpecM3U).         *)
(*                                                                         *)
(* SpecFaults adds a D1 statement that rejects and an upstream that        *)
(* answers with no programme or not at all; SpecFetchFailure runs those    *)
(* one request at a time, next to parseM3U; SpecRefresh runs ensure_fresh  *)
(* and force_refresh to completion on copies of the same tables.           *)
(*                                                                         *)
(* The sessions and favorites tables and the routes over them (login,      *)
(* logout, refresh; POST and DELETE of a favorite) are SpecAuth and        *)
(* SpecFavorites.  There the clock counts units of 15 minutes, the         *)
(* lifetime of an access token.                                            *)
(***************************************************************************)
EXTENDS Integers, Sequences, FiniteSets

VARIABLES
    clock,          \* Date.now()
    epg_sources,    \* table epg_sources, in rowid order
    epg_programs,   \* table epg_programs, in rowid order
    pc,             \* per request: the await it is suspended at
    loc,            \* per request: its local variables (n: which request it is)
    ret,            \* per request: the value it returned
    calls,          \* number of requests started so far
    lastFailure,    \* history: per (playlist, url) the latest recorded total failure
    input,          \* the arguments of a function applied on its own, << >> if none
    output,         \* what that function returned, << >> before it has
    sessions,       \* table sessions
    favorites,      \* table favorites
    tokens,         \* history: the token pairs login answered with
    web             \* per request of the auth and favorites routes: its position,
                    \* its arguments and its response

cacheVars == <<clock, epg_sources, epg_programs, pc, loc, ret, calls, lastFailure>>

webVars == <<sessions, favorites, tokens, web>>

vars == <<clock, epg_sources, epg_programs, pc, loc, ret, calls, lastFailure, input, output,
          sessions, favorites, tokens, web>>

----------------------------------------------------------------------------
(* Bounds *)

MaxClock == 4
MaxCalls == 2
MaxSeqCalls == 3

(* Program constants, in units of 30 minutes / rows *)

OneHour == 2
FortyEightHours == 96
chunkSize == 100

Procs == {"r1", "r2"}
Playlists == {"pl1"}
Urls == {"u1", "u2"}

\* request slots are interchangeable: a new request takes the first free one
Before(q, p) == q = "r1" /\ p = "r2"

Min(a, b) == IF a < b THEN a ELSE b

----------------------------------------------------------------------------
(* Upstream guide feeds.  A programme element carries its attributes as    *)
(* optional values; start and stop are the instants their timestamps       *)
(* denote.                                                                 *)

Programme(ch, st, en, ti) == [channel |-> ch, start |-> st, stop |-> en, title |-> ti]

ProgA == Programme(<<"bbc1">>, <<1>>, <<2>>, "A")
ProgB == Programme(<<"bbc1">>, <<2>>, <<9>>, "B")
ProgInverted == Programme(<<"bbc2">>, <<7>>, <<6>>, "C")
ProgFar == Programme(<<"bbc1">>, <<200>>, <<202>>, "D")
ProgNoTitle == Programme(<<"bbc1">>, <<3>>, <<4>>, "")
ProgNoStop == Programme(<<"bbc1">>, <<3>>, << >>, "E")
ProgOverlap == Programme(<<"bbc1">>, <<1>>, <<3>>, "F")

Feed(st, root, progs) == [status |-> st, tv |-> root, programme |-> progs]

Feeds ==
    { Feed("ok", TRUE, <<ProgA, ProgB, ProgInverted, ProgFar, ProgNoTitle, ProgNoStop, ProgOverlap>>),
      Feed("http_error", FALSE, << >>) }

----------------------------------------------------------------------------
(* xmltv-parser.ts *)

\* the body of the loop over parsed.tv.programme: the programs pushed for one element
ParseProgramme(prog, now) ==
    IF prog.channel = << >> \/ prog.start = << >> \/ prog.stop = << >>
    THEN << >>
    ELSE LET startTime == prog.start[1]
             endTime == prog.stop[1]
             maxTime == now + FortyEightHours
         IN IF endTime < now \/ startTime > maxTime
            THEN << >>
            ELSE IF prog.title = ""
            THEN << >>
            ELSE << [channel_id |-> prog.channel[1], title |-> prog.title,
                     start_time |-> startTime, end_time |-> endTime] >>

RECURSIVE ParseProgrammes(_, _)
ParseProgrammes(programmes, now) ==
    IF programmes = << >> THEN << >>
    ELSE ParseProgramme(Head(programmes), now) \o ParseProgrammes(Tail(programmes), now)

parseXMLTV(content, now) ==
    IF ~content.tv
    THEN [programs |-> << >>, errors |-> << <<"Invalid XMLTV: missing <tv> root element">> >>]
    ELSE [programs |-> ParseProgrammes(content.programme, now), errors |-> << >>]

\* mutant: a failed fetch is answered with an empty result and no error
fetchAndParseXMLTV_SilentFailure(feed, now) ==
    IF feed.status # "ok"
    THEN [programs |-> << >>, errors |-> << >>]
    ELSE parseXMLTV(feed, now)

\* fetch(url) rejects ("throws"), answers with a status that is not 2xx, or answers
\* with the feed
fetchAndParseXMLTV(feed, now) ==
    IF feed.status = "throws"
    THEN [programs |-> << >>, errors |-> << <<"Error fetching XMLTV">> >>]
    ELSE IF feed.status # "ok"
    THEN [programs |-> << >>, errors |-> << <<"Failed to fetch XMLTV">> >>]
    ELSE parseXMLTV(feed, now)

\* result.errors.join('; ')
RECURSIVE JoinErrors(_)
JoinErrors(errors) ==
    IF errors = << >> THEN << >>
    ELSE IF Len(errors) = 1 THEN errors[1]
    ELSE errors[1] \o <<"; ">> \o JoinErrors(Tail(errors))

\* result.programs.length === 0 && result.errors.length > 0
TotalFailure(result) == Len(result.programs) = 0 /\ Len(result.errors) > 0

----------------------------------------------------------------------------
(* db/queries.ts: EPG queries *)

\* SELECT * FROM epg_sources WHERE playlist_id = ? ... .first(): the row of
\* lowest rowid, or null
SelectSource(sources, playlistId) ==
    LET hits == {i \in 1..Len(sources) : sources[i].playlist_id = playlistId}
    IN IF hits = {} THEN << >>
       ELSE << sources[CHOOSE i \in hits : \A j \in hits : i <= j] >>

\* mutant: the rebinding forgets to reset last_fetched
ReboundSource_KeepsFreshness(existing, epgUrl) ==
    [existing EXCEPT !.epg_url = epgUrl, !.fetch_error = << >>]

\* the object getOrCreateEPGSource returns after rebinding an existing row
ReboundSource(existing, epgUrl) ==
    [existing EXCEPT !.epg_url = epgUrl, !.last_fetched = << >>, !.fetch_error = << >>]

\* UPDATE epg_sources SET epg_url = ?, last_fetched = NULL, fetch_error = NULL WHERE id = ?
UpdateSourceUrl(sources, id, epgUrl) ==
    [i \in 1..Len(sources) |->
        IF sources[i].id = id THEN ReboundSource(sources[i], epgUrl) ELSE sources[i]]

\* the row getOrCreateEPGSource inserts and returns
NewSource(id, playlistId, epgUrl) ==
    [id |-> id, playlist_id |-> playlistId, epg_url |-> epgUrl,
     last_fetched |-> << >>, fetch_error |-> << >>]

\* mutant: the fetch outcome is stamped but the error text is not stored
updateEPGSourceFetch_DropsError(sources, sourceId, fetchError, now) ==
    [i \in 1..Len(sources) |->
        IF sources[i].id = sourceId
        THEN [sources[i] EXCEPT !.last_fetched = <<now>>, !.fetch_error = << >>]
        ELSE sources[i]]

updateEPGSourceFetch(sources, sourceId, fetchError, now) ==
    [i \in 1..Len(sources) |->
        IF sources[i].id = sourceId
        THEN [sources[i] EXCEPT !.last_fetched = <<now>>, !.fetch_error = fetchError]
        ELSE sources[i]]

\* mutant: a source fetched exactly one hour ago already counts as stale
shouldRefreshEPG_Inclusive(source, now) ==
    IF source.last_fetched = << >> \/ source.last_fetched = <<0>>
    THEN TRUE
    ELSE source.last_fetched[1] <= now - OneHour

\* mutant: every source counts as stale
shouldRefreshEPG_Always(source, now) == TRUE

\* mutant: a source whose last attempt failed is retried at once
shouldRefreshEPG_RetryOnError(source, now) ==
    IF source.last_fetched = << >> \/ source.fetch_error # << >>
    THEN TRUE
    ELSE source.last_fetched[1] < now - OneHour

\* mutant: single-flight, a source that another request is refreshing is not stale
shouldRefreshEPG_SingleFlight(source, now) ==
    /\ \A q \in Procs :
          pc[q] \in {"fetch", "cleanup", "clear", "insert", "stamp"} =>
              loc[q].source[1].id # source.id
    /\ IF source.last_fetched = << >> \/ source.last_fetched = <<0>>
       THEN TRUE
       ELSE source.last_fetched[1] < now - OneHour

shouldRefreshEPG(source, now) ==
    IF source.last_fetched = << >> \/ source.last_fetched = <<0>>
    THEN TRUE
    ELSE LET oneHourAgo == now - OneHour
         IN source.last_fetched[1] < oneHourAgo

\* mutant: the DELETE removes nothing
clearEPGPrograms_Nothing(programs, sourceId) == programs

clearEPGPrograms(programs, sourceId) ==
    SelectSeq(programs, LAMBDA r : r.epg_source_id # sourceId)

cleanupOldPrograms(programs, sourceId, now) ==
    LET oneHourAgo == now - OneHour
    IN SelectSeq(programs, LAMBDA r : ~(r.epg_source_id = sourceId /\ r.end_time < oneHourAgo))

ProgramRow(sourceId, prog) ==
    [epg_source_id |-> sourceId, channel_id |-> prog.channel_id, title |-> prog.title,
     start_time |-> prog.start_time, end_time |-> prog.end_time]

\* one db.batch of insertEPGPrograms: the chunk programs.slice(i, i + chunkSize)
InsertChunk(programs, sourceId, progs, i) ==
    LET chunk == SubSeq(progs, i + 1, Min(i + chunkSize, Len(progs)))
    IN programs \o [k \in 1..Len(chunk) |-> ProgramRow(sourceId, chunk[k])]

----------------------------------------------------------------------------
(* Requests *)

NoResult == [programs |-> << >>, errors |-> << >>]

IdleLoc ==
    [n |-> 0, op |-> "none", playlistId |-> "", epgUrl |-> "", existing |-> << >>,
     source |-> << >>, result |-> NoResult, i |-> 0, fetched |-> FALSE]

\* the locals of a request that has returned: only what it was asked remains
Finished(l) ==
    [IdleLoc EXCEPT !.n = l.n, !.op = l.op, !.playlistId = l.playlistId,
                    !.epgUrl = l.epgUrl, !.fetched = l.fetched]

\* a request slot of the auth and favorites routes that holds no request
NoRequest == [pc |-> "idle", n |-> 0]

\* the sessions and favorites tables as created, no token issued, no request started
IdleWeb ==
    /\ sessions = {}
    /\ favorites = {}
    /\ tokens = {}
    /\ web = [p \in Procs |-> NoRequest]

Init ==
    /\ IdleWeb
    /\ clock = 1
    /\ epg_sources = << >>
    /\ epg_programs = << >>
    /\ pc = [p \in Procs |-> "idle"]
    /\ loc = [p \in Procs |-> IdleLoc]
    /\ ret = [p \in Procs |-> << >>]
    /\ calls = 0
    /\ lastFailure = [k \in Playlists \X Urls |-> << >>]
    /\ input = << >>
    /\ output = << >>

\* what follows `const source = await getOrCreateEPGSource(...)` in the same turn:
\* refreshEPGIfNeeded tests staleness, the refresh route goes on to fetch
AfterGetOrCreate(p, l, source) ==
    IF l.op = "ensure" /\ ~shouldRefreshEPG(source, clock)
    THEN /\ pc' = [pc EXCEPT ![p] = "done"]
         /\ loc' = [loc EXCEPT ![p] = Finished(l)]
         /\ ret' = [ret EXCEPT ![p] = <<[source |-> <<source>>, refreshed |-> FALSE, error |-> << >>]>>]
    ELSE /\ pc' = [pc EXCEPT ![p] = "fetch"]
         /\ loc' = [loc EXCEPT ![p] = [l EXCEPT !.source = <<source>>]]
         /\ ret' = [ret EXCEPT ![p] = << >>]

\* the SELECT of getOrCreateEPGSource, as issued by either operation
GetOrCreate_Select(p, op, playlistId, epgUrl) ==
    /\ pc[p] \in {"idle", "done"}
    /\ \A q \in Procs : Before(q, p) => pc[q] \notin {"idle", "done"}
    /\ calls' = calls + 1
    /\ LET existing == SelectSource(epg_sources, playlistId)
           l == [IdleLoc EXCEPT !.n = calls + 1, !.op = op, !.playlistId = playlistId,
                                !.epgUrl = epgUrl, !.existing = existing]
       IN IF existing = << >>
          THEN /\ pc' = [pc EXCEPT ![p] = "create"]
               /\ loc' = [loc EXCEPT ![p] = l]
               /\ ret' = [ret EXCEPT ![p] = << >>]
          ELSE IF existing[1].epg_url # epgUrl
          THEN /\ pc' = [pc EXCEPT ![p] = "rebind"]
               /\ loc' = [loc EXCEPT ![p] = l]
               /\ ret' = [ret EXCEPT ![p] = << >>]
          ELSE AfterGetOrCreate(p, l, existing[1])
    /\ UNCHANGED <<clock, epg_sources, epg_programs, lastFailure, input, output, webVars>>

\* refreshEPGIfNeeded(db, playlistId, epgUrl) up to its first await
EnsureFresh(p, playlistId, epgUrl) == GetOrCreate_Select(p, "ensure", playlistId, epgUrl)

\* POST /epg/:playlistId/refresh, for an owner and with an epg_url, up to that await
ForceRefresh(p, playlistId, epgUrl) == GetOrCreate_Select(p, "force", playlistId, epgUrl)

\* getOrCreateEPGSource: the UPDATE that rebinds an existing row
Rebind(p) ==
    /\ pc[p] = "rebind"
    /\ epg_sources' = UpdateSourceUrl(epg_sources, loc[p].existing[1].id, loc[p].epgUrl)
    /\ AfterGetOrCreate(p, loc[p], ReboundSource(loc[p].existing[1], loc[p].epgUrl))
    /\ UNCHANGED <<clock, epg_programs, calls, lastFailure, input, output, webVars>>

\* getOrCreateEPGSource: the INSERT of a new row; generateUUID() is the next free id
CreateSource(p) ==
    /\ pc[p] = "create"
    /\ LET source == NewSource(Len(epg_sources) + 1, loc[p].playlistId, loc[p].epgUrl)
       IN /\ epg_sources' = Append(epg_sources, source)
          /\ AfterGetOrCreate(p, loc[p], source)
    /\ UNCHANGED <<clock, epg_programs, calls, lastFailure, input, output, webVars>>

\* await fetchAndParseXMLTV(epgUrl): the upstream serves some feed, parsed at the
\* current time
Fetch(p, feed) ==
    /\ pc[p] = "fetch"
    /\ LET result == fetchAndParseXMLTV(feed, clock)
       IN /\ loc' = [loc EXCEPT ![p].result = result, ![p].fetched = TRUE]
          /\ pc' = [pc EXCEPT ![p] =
                IF TotalFailure(result) THEN "record_failure"
                ELSE IF loc[p].op = "ensure" THEN "cleanup" ELSE "clear"]
    /\ UNCHANGED <<clock, epg_sources, epg_programs, ret, calls, lastFailure, input, output, webVars>>

\* await updateEPGSourceFetch(db, source.id, null, null, errors.join('; ')) and the return
RecordFailure(p) ==
    /\ pc[p] = "record_failure"
    /\ LET error == JoinErrors(loc[p].result.errors)
       IN /\ epg_sources' = updateEPGSourceFetch(epg_sources, loc[p].source[1].id, <<error>>, clock)
          /\ ret' = [ret EXCEPT ![p] =
                <<[source |-> loc[p].source, refreshed |-> FALSE, error |-> <<error>>]>>]
          /\ lastFailure' = [lastFailure EXCEPT ![<<loc[p].playlistId, loc[p].epgUrl>>] =
                <<[at |-> clock, error |-> error]>>]
    /\ pc' = [pc EXCEPT ![p] = "done"]
    /\ loc' = [loc EXCEPT ![p] = Finished(loc[p])]
    /\ UNCHANGED <<clock, epg_programs, calls, input, output, webVars>>

\* await cleanupOldPrograms(db, source.id)        (refreshEPGIfNeeded only)
CleanupOldPrograms(p) ==
    /\ pc[p] = "cleanup"
    /\ epg_programs' = cleanupOldPrograms(epg_programs, loc[p].source[1].id, clock)
    /\ pc' = [pc EXCEPT ![p] = "clear"]
    /\ UNCHANGED <<clock, epg_sources, loc, ret, calls, lastFailure, input, output, webVars>>

\* await clearEPGPrograms(db, source.id); insertEPGPrograms returns at once for
\* an empty list
ClearEPGPrograms(p) ==
    /\ pc[p] = "clear"
    /\ epg_programs' = clearEPGPrograms(epg_programs, loc[p].source[1].id)
    /\ pc' = [pc EXCEPT ![p] =
            IF Len(loc[p].result.programs) = 0 THEN "stamp" ELSE "insert"]
    /\ loc' = [loc EXCEPT ![p].i = 0]
    /\ UNCHANGED <<clock, epg_sources, ret, calls, lastFailure, input, output, webVars>>

\* one await db.batch(statements) of insertEPGPrograms
InsertEPGPrograms(p) ==
    /\ pc[p] = "insert"
    /\ epg_programs' = InsertChunk(epg_programs, loc[p].source[1].id, loc[p].result.programs, loc[p].i)
    /\ loc' = [loc EXCEPT ![p].i = @ + chunkSize]
    /\ pc' = [pc EXCEPT ![p] =
            IF loc[p].i + chunkSize < Len(loc[p].result.programs) THEN "insert" ELSE "stamp"]
    /\ UNCHANGED <<clock, epg_sources, ret, calls, lastFailure, input, output, webVars>>

\* await updateEPGSourceFetch(db, source.id, null, null, null) and the return
StampSuccess(p) ==
    /\ pc[p] = "stamp"
    /\ epg_sources' = updateEPGSourceFetch(epg_sources, loc[p].source[1].id, << >>, clock)
    /\ ret' = [ret EXCEPT ![p] =
            <<[source |-> <<[loc[p].source[1] EXCEPT !.last_fetched = <<clock>>]>>,
               refreshed |-> TRUE, error |-> << >>]>>]
    /\ pc' = [pc EXCEPT ![p] = "done"]
    /\ loc' = [loc EXCEPT ![p] = Finished(loc[p])]
    /\ UNCHANGED <<clock, epg_programs, calls, lastFailure, input, output, webVars>>

\* 30 minutes pass
Tick ==
    /\ clock < MaxClock
    /\ clock' = clock + 1
    /\ UNCHANGED <<epg_sources, epg_programs, pc, loc, ret, calls, lastFailure, input, output, webVars>>

\* the steps of the requests in flight, and the passing of time
Continue ==
    \/ \E p \in Procs : Rebind(p)
    \/ \E p \in Procs : CreateSource(p)
    \/ \E p \in Procs, feed \in Feeds : Fetch(p, feed)
    \/ \E p \in Procs : RecordFailure(p)
    \/ \E p \in Procs : CleanupOldPrograms(p)
    \/ \E p \in Procs : ClearEPGPrograms(p)
    \/ \E p \in Procs : InsertEPGPrograms(p)
    \/ \E p \in Procs : StampSuccess(p)
    \/ Tick

\* requests arrive at any time, also while another one is in flight
Next ==
    \/ \E p \in Procs, pl \in Playlists, u \in Urls :
            calls < MaxCalls /\ EnsureFresh(p, pl, u)
    \/ \E p \in Procs, pl \in Playlists, u \in Urls :
            calls < MaxCalls /\ ForceRefresh(p, pl, u)
    \/ Continue

Spec == Init /\ [][Next]_vars

\* requests arrive one after the other: none starts while another is in flight
NoneInFlight == \A q \in Procs : pc[q] \in {"idle", "done"}

NextSeq ==
    \/ \E p \in Procs, pl \in Playlists, u \in Urls :
            calls < MaxSeqCalls /\ NoneInFlight /\ EnsureFresh(p, pl, u)
    \/ \E p \in Procs, pl \in Playlists, u \in Urls :
            calls < MaxSeqCalls /\ NoneInFlight /\ ForceRefresh(p, pl, u)
    \/ Continue

SpecSeq == Init /\ [][NextSeq]_vars

----------------------------------------------------------------------------
(* Failures.  The upstream may also answer with a guide that lists no      *)
(* programme, and fetch may reject; an awaited D1 statement of the refresh *)
(* may reject, leaving the tables as they were, which takes the request to *)
(* the catch block of its handler.                                         *)

EmptyFeed == Feed("ok", TRUE, << >>)

FaultFeeds == {EmptyFeed, Feed("throws", FALSE, << >>)}

\* what the catch block answers: refreshEPGIfNeeded returns String(error), the
\* refresh route a 500 response
Caught(op) ==
    [source |-> << >>, refreshed |-> FALSE,
     error |-> IF op = "ensure" THEN << <<"Error: D1_ERROR">> >>
               ELSE << <<"Failed to refresh EPG">> >>]

\* the awaited statement of the request rejects
StatementFails(p) ==
    /\ pc[p] \in {"create", "rebind", "record_failure", "cleanup", "clear", "insert", "stamp"}
    /\ ret' = [ret EXCEPT ![p] = <<Caught(loc[p].op)>>]
    /\ pc' = [pc EXCEPT ![p] = "done"]
    /\ loc' = [loc EXCEPT ![p] = Finished(loc[p])]
    /\ UNCHANGED <<clock, epg_sources, epg_programs, calls, lastFailure, input, output, webVars>>

NextFaults ==
    \/ Next
    \/ \E p \in Procs, feed \in FaultFeeds : Fetch(p, feed)
    \/ \E p \in Procs : StatementFails(p)

SpecFaults == Init /\ [][NextFaults]_vars

----------------------------------------------------------------------------
(* Functions applied on their own.  A specification of this part draws the *)
(* arguments of one function into `input`, applies the function and keeps  *)
(* what it returned in `output`; the cache stays as constructed.           *)
(*                                                                         *)
(* A text is a string; its character at position i is SubSeq(text, i, i).  *)
(* A JavaScript number is a sequence of length at most one: << >> is NaN,  *)
(* <<n>> is the number n.                                                  *)

IdleCache ==
    /\ IdleWeb
    /\ clock = 1
    /\ epg_sources = << >>
    /\ epg_programs = << >>
    /\ pc = [p \in Procs |-> "idle"]
    /\ loc = [p \in Procs |-> IdleLoc]
    /\ ret = [p \in Procs |-> << >>]
    /\ calls = 0
    /\ lastFailure = [k \in Playlists \X Urls |-> << >>]

NaN == << >>

\* a < b and a > b of JavaScript: false as soon as one side is NaN
Less(a, b) == a # NaN /\ b # NaN /\ a[1] < b[1]
Greater(a, b) == Less(b, a)

DigitChars == <<"0", "1", "2", "3", "4", "5", "6", "7", "8", "9">>

IsDigit(c) == \E d \in 1..10 : DigitChars[d] = c

DigitValue(c) == (CHOOSE d \in 1..10 : DigitChars[d] = c) - 1

WhiteSpace == {" ", "\t", "\n", "\r"}

\* String.prototype.trim
RECURSIVE TrimStart(_)
TrimStart(str) ==
    IF str # "" /\ Head(str) \in WhiteSpace THEN TrimStart(Tail(str)) ELSE str

RECURSIVE TrimEnd(_)
TrimEnd(str) ==
    IF str # "" /\ SubSeq(str, Len(str), Len(str)) \in WhiteSpace
    THEN TrimEnd(SubSeq(str, 1, Len(str) - 1)) ELSE str

Trim(str) == TrimEnd(TrimStart(str))

\* String.prototype.substring(from, to) for 0 <= from <= to
Substring(str, from, to) == SubSeq(str, Min(from, Len(str)) + 1, Min(to, Len(str)))

\* the value of the longest prefix of decimal digits, read after acc
RECURSIVE DigitsValue(_, _)
DigitsValue(str, acc) ==
    IF str = "" \/ ~IsDigit(Head(str)) THEN acc
    ELSE DigitsValue(Tail(str), 10 * acc + DigitValue(Head(str)))

\* parseInt(str, 10): leading white space, an optional sign, then digits; NaN
\* when no digit follows
parseInt(str) ==
    LET s == TrimStart(str)
        signed == s # "" /\ Head(s) \in {"+", "-"}
        digits == IF signed THEN Tail(s) ELSE s
    IN IF digits = "" \/ ~IsDigit(Head(digits)) THEN NaN
       ELSE IF signed /\ Head(s) = "-" THEN <<0 - DigitsValue(digits, 0)>>
       ELSE <<DigitsValue(digits, 0)>>

----------------------------------------------------------------------------
(* Date.UTC of ECMAScript, in seconds: every instant the parser computes   *)
(* is a whole number of seconds, so 1000 ms is the unit here.              *)

SecondsPerDay == 24 * 60 * 60

\* DayFromYear(y): the day number of 1 January of year y, day 0 being 1970-01-01
DayFromYear(y) ==
    365 * (y - 1970) + ((y - 1969) \div 4) - ((y - 1901) \div 100) + ((y - 1601) \div 400)

InLeapYear(y) == (y % 4 = 0 /\ y % 100 # 0) \/ y % 400 = 0

\* the days of year y before its month m, m counted from 0
DaysBeforeMonth(y, m) ==
    LET common == <<0, 31, 59, 90, 120, 151, 181, 212, 243, 273, 304, 334>>
    IN common[m + 1] + (IF m >= 2 /\ InLeapYear(y) THEN 1 ELSE 0)

\* MakeDay(year, month, date)
MakeDay(year, month, date) ==
    LET ym == year + (month \div 12)
        mn == month % 12
    IN DayFromYear(ym) + DaysBeforeMonth(ym, mn) + date - 1

\* Date.UTC(year, month, day, hour, minute, second); a year of 0..99 means 19xx
DateUTC(year, month, day, hour, minute, second) ==
    IF NaN \in {year, month, day, hour, minute, second} THEN NaN
    ELSE LET yr == IF year[1] >= 0 /\ year[1] <= 99 THEN 1900 + year[1] ELSE year[1]
         IN <<MakeDay(yr, month[1], day[1]) * SecondsPerDay
                + hour[1] * 3600 + minute[1] * 60 + second[1]>>

----------------------------------------------------------------------------
(* xmltv-parser.ts: parseXMLTVDateTime *)

\* cleanStr.match(/([+-])(\d{2})(\d{2})$/): the groups, or << >> for null
TzMatch(cleanStr) ==
    LET n == Len(cleanStr)
    IN IF /\ n >= 5
          /\ SubSeq(cleanStr, n - 4, n - 4) \in {"+", "-"}
          /\ \A k \in (n - 3)..n : IsDigit(SubSeq(cleanStr, k, k))
       THEN <<SubSeq(cleanStr, n - 4, n - 4), SubSeq(cleanStr, n - 3, n - 2),
              SubSeq(cleanStr, n - 1, n)>>
       ELSE << >>

\* tzSign * (tzHours * 60 + tzMinutes) * 60 * 1000, in seconds
TzOffset(tzMatch) ==
    LET tzSign == IF tzMatch[1] = "+" THEN 1 ELSE -1
        tzHours == parseInt(tzMatch[2])
        tzMinutes == parseInt(tzMatch[3])
    IN tzSign * (tzHours[1] * 60 + tzMinutes[1]) * 60

\* Date.UTC(year, month, day, hour, minute, second) of the first 14 characters
UtcDate(cleanStr) ==
    LET dateTimePart == Substring(cleanStr, 0, 14)
        year == parseInt(Substring(dateTimePart, 0, 4))
        month1 == parseInt(Substring(dateTimePart, 4, 6))
        month == IF month1 = NaN THEN NaN ELSE <<month1[1] - 1>>
        day == parseInt(Substring(dateTimePart, 6, 8))
        hour == parseInt(Substring(dateTimePart, 8, 10))
        minute == parseInt(Substring(dateTimePart, 10, 12))
        second == parseInt(Substring(dateTimePart, 12, 14))
    IN DateUTC(year, month, day, hour, minute, second)

\* variant: the offset is added instead of subtracted
parseXMLTVDateTime_AddsOffset(dateStr) ==
    LET cleanStr == Trim(dateStr)
        tzMatch == TzMatch(cleanStr)
        utcDate == UtcDate(cleanStr)
    IN IF tzMatch # << >> /\ utcDate # NaN THEN <<utcDate[1] + TzOffset(tzMatch)>>
       ELSE utcDate

parseXMLTVDateTime(dateStr) ==
    LET cleanStr == Trim(dateStr)
        tzMatch == TzMatch(cleanStr)
        utcDate == UtcDate(cleanStr)
    IN IF tzMatch # << >>
       THEN IF utcDate = NaN THEN NaN ELSE <<utcDate[1] - TzOffset(tzMatch)>>
       ELSE utcDate

----------------------------------------------------------------------------
(* Timestamps given to parseXMLTVDateTime: a wall-clock time written as    *)
(* YYYYMMDDHHMMSS, then nothing or an offset +HHMM / -HHMM, with or        *)
(* without a blank between them; and texts that are no timestamp.          *)

WallTime(y, mo, d, h, mi, s) ==
    [year |-> y, month |-> mo, day |-> d, hour |-> h, minute |-> mi, second |-> s]

Offset(sign, h, mi) == [sign |-> sign, hours |-> h, minutes |-> mi]

TwoDigits(n) == DigitChars[(n \div 10) + 1] \o DigitChars[(n % 10) + 1]

FourDigits(n) == TwoDigits(n \div 100) \o TwoDigits(n % 100)

FormatWallTime(w) ==
    FourDigits(w.year) \o TwoDigits(w.month) \o TwoDigits(w.day)
        \o TwoDigits(w.hour) \o TwoDigits(w.minute) \o TwoDigits(w.second)

FormatOffset(off) ==
    IF off = << >> THEN ""
    ELSE off[1].sign \o TwoDigits(off[1].hours) \o TwoDigits(off[1].minutes)

FormatTimestamp(w, sep, off) ==
    FormatWallTime(w) \o (IF off = << >> THEN "" ELSE sep) \o FormatOffset(off)

WallTimes ==
    {WallTime(y, md[1], md[2], t[1], t[2], t[3]) :
        y \in {2023, 2024},
        md \in {<<1, 1>>, <<2, 28>>, <<3, 1>>, <<12, 31>>},
        t \in {<<0, 0, 0>>, <<12, 0, 0>>, <<23, 59, 59>>}}

Offsets ==
    {<< >>, <<Offset("+", 0, 0)>>, <<Offset("+", 2, 0)>>, <<Offset("-", 5, 0)>>,
     <<Offset("+", 5, 30)>>, <<Offset("-", 9, 30)>>}

Separators == {"", " "}

TimestampInput(text, w, off) == [text |-> text, wall |-> w, offset |-> off]

\* texts that are no timestamp: empty, words, a date cut short, a dashed date
NoTimestamps ==
    {"", "now", "2024", "2024-01-01T12:00", "xxxx0101120000"}

TimestampInputs ==
    {TimestampInput(FormatTimestamp(w, sep, off), <<w>>, off) :
        w \in WallTimes, sep \in Separators, off \in Offsets}
    \cup {TimestampInput(" " \o FormatTimestamp(w, " ", off) \o "\n", <<w>>, off) :
        w \in {WallTime(2024, 1, 1, 12, 0, 0)}, off \in Offsets}
    \cup {TimestampInput(text, << >>, << >>) : text \in NoTimestamps}

InitTime ==
    /\ IdleCache
    /\ input \in TimestampInputs
    /\ output = << >>

\* parseXMLTVDateTime(dateStr)
ParseDateTime ==
    /\ output = << >>
    /\ output' = <<parseXMLTVDateTime(input.text)>>
    /\ UNCHANGED <<cacheVars, webVars, input>>

NextTime == ParseDateTime

SpecTime == InitTime /\ [][NextTime]_vars

----------------------------------------------------------------------------
(* xmltv-parser.ts: parseXMLTV on programme elements whose start and stop  *)
(* attributes are texts.  Instants are in seconds.                         *)

\* the seconds in one unit of the cache's clock
HalfHour == 30 * 60

\* !value of an attribute: absent, or empty
Falsy(attr) == attr = << >> \/ attr[1] = ""

\* the body of the loop over parsed.tv.programme; nothing in it throws, so the
\* catch that appends "Failed to parse programme: ..." is never entered
ParseProgrammeText(prog, now) ==
    IF Falsy(prog.channel) \/ Falsy(prog.start) \/ Falsy(prog.stop)
    THEN << >>
    ELSE LET startTime == parseXMLTVDateTime(prog.start[1])
             endTime == parseXMLTVDateTime(prog.stop[1])
             maxTime == <<now + FortyEightHours * HalfHour>>
         IN IF Less(endTime, <<now>>) \/ Greater(startTime, maxTime)
            THEN << >>
            ELSE IF prog.title = ""
            THEN << >>
            ELSE << [channel_id |-> prog.channel[1], title |-> prog.title,
                     start_time |-> startTime, end_time |-> endTime] >>

RECURSIVE ParseProgrammesText(_, _)
ParseProgrammesText(programmes, now) ==
    IF programmes = << >> THEN << >>
    ELSE ParseProgrammeText(Head(programmes), now)
            \o ParseProgrammesText(Tail(programmes), now)

parseXMLTVText(programmes, now) ==
    [programs |-> ParseProgrammesText(programmes, now), errors |-> << >>]

\* 2024-01-01T10:00:00Z
GuideNow == UtcDate("20240101100000")[1]

At(h, off) == FormatTimestamp(WallTime(2024, 1, 1, h, 0, 0), " ", off)

TextGood == Programme(<<"bbc1">>, <<At(12, <<Offset("+", 2, 0)>>)>>, <<At(13, <<Offset("+", 2, 0)>>)>>, "A")
TextGoodNext == Programme(<<"bbc1">>, <<At(11, << >>)>>, <<At(12, << >>)>>, "B")
TextEnded == Programme(<<"bbc1">>, <<At(8, << >>)>>, <<At(9, << >>)>>, "C")
TextBadStart == Programme(<<"bbc1">>, <<"now">>, <<At(12, << >>)>>, "D")
TextBadStop == Programme(<<"bbc2">>, <<At(10, << >>)>>, <<"2024">>, "E")
TextEmptyStop == Programme(<<"bbc2">>, <<At(10, << >>)>>, <<"">>, "F")

TextProgrammes == {TextGood, TextGoodNext, TextEnded, TextBadStart, TextBadStop, TextEmptyStop}

MaxElements == 2

TextFeeds ==
    UNION {[1..n -> TextProgrammes] : n \in 0..MaxElements}

InitGuide ==
    /\ IdleCache
    /\ input \in {[programme |-> f, now |-> n] :
                    f \in TextFeeds, n \in {GuideNow, GuideNow + HalfHour}}
    /\ output = << >>

\* parseXMLTV(xmlContent) at Date.now() = input.now
ParseGuide ==
    /\ output = << >>
    /\ output' = <<parseXMLTVText(input.programme, input.now)>>
    /\ UNCHANGED <<cacheVars, webVars, input>>

NextGuide == ParseGuide

SpecGuide == InitGuide /\ [][NextGuide]_vars

----------------------------------------------------------------------------
(* db/queries.ts: getNowNextPrograms.  A map is a function whose domain is *)
(* its set of keys; an absent now / next is << >>.                         *)

\* the channel ids in the order ORDER BY channel_id puts them
ChannelIds == <<"bbc1", "bbc2", "itv">>

ChannelRank(c) == CHOOSE i \in 1..Len(ChannelIds) : ChannelIds[i] = c

\* WHERE epg_source_id = ? AND channel_id IN (...) AND end_time > ?, without the
\* end_time condition
NowNextRows_KeepsEnded(programs, epgSourceId, channelIds, now) ==
    SelectSeq(programs, LAMBDA r :
        /\ r.epg_source_id = epgSourceId
        /\ \E i \in 1..Len(channelIds) : channelIds[i] = r.channel_id)

\* WHERE epg_source_id = ? AND channel_id IN (...) AND end_time > ?
NowNextRows(programs, epgSourceId, channelIds, now) ==
    SelectSeq(programs, LAMBDA r :
        /\ r.epg_source_id = epgSourceId
        /\ \E i \in 1..Len(channelIds) : channelIds[i] = r.channel_id
        /\ r.end_time > now)

\* ORDER BY channel_id, start_time: every arrangement of the rows in that order;
\* rows equal in both columns come in any order
OrderByChannelStart(rows) ==
    LET n == Len(rows)
        perms == {f \in [1..n -> 1..n] : \A i, j \in 1..n : i # j => f[i] # f[j]}
        sorted(f) ==
            \A i, j \in 1..n : i < j =>
                \/ ChannelRank(rows[f[i]].channel_id) < ChannelRank(rows[f[j]].channel_id)
                \/ /\ rows[f[i]].channel_id = rows[f[j]].channel_id
                   /\ rows[f[i]].start_time <= rows[f[j]].start_time
    IN {[i \in 1..n |-> rows[f[i]]] : f \in {g \in perms : sorted(g)}}

\* the body of the loop over programs.results
NowNextStep(result, prog, now) ==
    LET c == prog.channel_id
        entry == IF c \in DOMAIN result THEN result[c] ELSE [now |-> << >>, next |-> << >>]
        updated ==
            IF prog.start_time <= now /\ prog.end_time > now
            THEN [entry EXCEPT !.now = <<prog>>]
            ELSE IF prog.start_time > now /\ entry.next = << >>
            THEN [entry EXCEPT !.next = <<prog>>]
            ELSE entry
    IN [k \in DOMAIN result \cup {c} |-> IF k = c THEN updated ELSE result[k]]

\* for (const prog of programs.results || []) over rows, starting from result
RECURSIVE NowNextLoop(_, _, _)
NowNextLoop(result, rows, now) ==
    IF rows = << >> THEN result
    ELSE NowNextLoop(NowNextStep(result, Head(rows), now), Tail(rows), now)

\* {}
EmptyMap == [k \in {} |-> << >>]

\* the values getNowNextPrograms can return
getNowNextPrograms(programs, epgSourceId, channelIds, now) ==
    IF Len(channelIds) = 0 THEN {EmptyMap}
    ELSE {NowNextLoop(EmptyMap, rows, now) :
            rows \in OrderByChannelStart(NowNextRows(programs, epgSourceId, channelIds, now))}

----------------------------------------------------------------------------
(* getNowNextPrograms applied to stored guides: the rows a refresh at      *)
(* 00:30 has parsed and inserted for source 1, next to a row of another    *)
(* source.                                                                 *)

GuideA == Programme(<<"bbc1">>, <<1>>, <<3>>, "A")
GuideB == Programme(<<"bbc1">>, <<3>>, <<5>>, "B")
GuideOverlap == Programme(<<"bbc1">>, <<2>>, <<4>>, "O")
GuideTie == Programme(<<"bbc1">>, <<1>>, <<4>>, "T")
GuideShort == Programme(<<"bbc2">>, <<1>>, <<2>>, "S")
GuideInverted == Programme(<<"bbc2">>, <<4>>, <<3>>, "I")
GuideOther == Programme(<<"itv">>, <<1>>, <<9>>, "X")

GuideProgrammes == {GuideA, GuideB, GuideOverlap, GuideTie, GuideShort, GuideInverted}

MaxRows == 2

\* source 1 stamped by its refresh, source 2 of another playlist
GuideSources ==
    << [NewSource(1, "pl1", "u1") EXCEPT !.last_fetched = <<1>>],
       [NewSource(2, "pl2", "u2") EXCEPT !.last_fetched = <<1>>] >>

GuideTables ==
    {InsertChunk(InsertChunk(<< >>, 2, ParseProgrammes(<<GuideOther>>, 1), 0),
                 1, ParseProgrammes(f, 1), 0) :
        f \in UNION {[1..n -> GuideProgrammes] : n \in 0..MaxRows}}

ChannelRequests ==
    {<< >>, <<"bbc1">>, <<"bbc2">>, <<"bbc1", "bbc2">>, <<"itv", "bbc1">>}

InitMatch ==
    /\ IdleWeb
    /\ clock \in 1..MaxClock
    /\ epg_sources = GuideSources
    /\ epg_programs \in GuideTables
    /\ pc = [p \in Procs |-> "idle"]
    /\ loc = [p \in Procs |-> IdleLoc]
    /\ ret = [p \in Procs |-> << >>]
    /\ calls = 0
    /\ lastFailure = [k \in Playlists \X Urls |-> << >>]
    /\ input \in {[epgSourceId |-> 1, channelIds |-> c] : c \in ChannelRequests}
    /\ output = << >>

\* await getNowNextPrograms(db, source.id, channelIds) at Date.now() = clock
MatchNowNext ==
    /\ output = << >>
    /\ \E result \in getNowNextPrograms(epg_programs, input.epgSourceId,
                                        input.channelIds, clock) :
            output' = <<result>>
    /\ UNCHANGED <<cacheVars, webVars, input>>

NextMatch == MatchNowNext

SpecMatch == InitMatch /\ [][NextMatch]_vars

----------------------------------------------------------------------------
(* routes/channels.ts: the merge of the now/next map into the channel list *)

Channel(name, url, tvgId) == [name |-> name, url |-> url, tvg_id |-> tvgId]

\* variant: only the channels that have guide data are returned
MergeEPG_OnlyWithGuide(channels, epgData) ==
    LET kept == SelectSeq(channels, LAMBDA ch :
                    ~Falsy(ch.tvg_id) /\ ch.tvg_id[1] \in DOMAIN epgData)
    IN [i \in 1..Len(kept) |->
            [name |-> kept[i].name, url |-> kept[i].url, tvg_id |-> kept[i].tvg_id,
             epg |-> <<epgData[kept[i].tvg_id[1]]>>]]

\* { ...ch, epg: ch.tvg_id && epgData[ch.tvg_id] ? epgData[ch.tvg_id] : undefined }
MergeChannel(ch, epgData) ==
    [name |-> ch.name, url |-> ch.url, tvg_id |-> ch.tvg_id,
     epg |-> IF ~Falsy(ch.tvg_id) /\ ch.tvg_id[1] \in DOMAIN epgData
             THEN <<epgData[ch.tvg_id[1]]>>
             ELSE << >>]

\* channels.map((ch) => ...)
MergeEPG(channels, epgData) ==
    [i \in 1..Len(channels) |-> MergeChannel(channels[i], epgData)]

MergeChannels ==
    { Channel("BBC One", "http://tv/1", <<"bbc1">>),
      Channel("BBC Two", "http://tv/2", <<"bbc2">>),
      Channel("Local", "http://tv/3", << >>),
      Channel("Blank", "http://tv/4", <<"">>) }

MaxChannels == 2

\* now/next maps as getNowNextPrograms returns them for requests of bbc1 and bbc2
MergeGuides ==
    UNION {getNowNextPrograms(t, 1, <<"bbc1", "bbc2">>, 2) :
            t \in {InsertChunk(<< >>, 1, ParseProgrammes(f, 1), 0) :
                    f \in {<< >>, <<GuideA, GuideB>>, <<GuideInverted>>,
                           <<GuideA, GuideInverted>>}}}

InitMerge ==
    /\ IdleCache
    /\ input \in {[channels |-> chs, epgData |-> g] :
                    chs \in UNION {[1..n -> MergeChannels] : n \in 0..MaxChannels},
                    g \in MergeGuides}
    /\ output = << >>

\* const channelsWithEPG = channels.map(...)
MergeGuide ==
    /\ output = << >>
    /\ output' = <<MergeEPG(input.channels, input.epgData)>>
    /\ UNCHANGED <<cacheVars, webVars, input>>

NextMerge == MergeGuide

SpecMerge == InitMerge /\ [][NextMerge]_vars

----------------------------------------------------------------------------
(* The M3U parser (parseM3U, extractEpgUrl, parseExtinf, isValidUrl) *)

CharAt(str, i) == SubSeq(str, i, i)

\* str.startsWith(prefix)
StartsWith(str, prefix) ==
    Len(str) >= Len(prefix) /\ SubSeq(str, 1, Len(prefix)) = prefix

\* the positions, counted from 1, at which sub occurs in str
Occurrences(str, sub) ==
    {i \in 1..(Len(str) - Len(sub) + 1) : SubSeq(str, i, i + Len(sub) - 1) = sub}

Least(S) == CHOOSE i \in S : \A k \in S : i <= k

Greatest(S) == CHOOSE i \in S : \A k \in S : k <= i

UpperChars ==
    <<"A", "B", "C", "D", "E", "F", "G", "H", "I", "J", "K", "L", "M",
      "N", "O", "P", "Q", "R", "S", "T", "U", "V", "W", "X", "Y", "Z">>

LowerChars ==
    <<"a", "b", "c", "d", "e", "f", "g", "h", "i", "j", "k", "l", "m",
      "n", "o", "p", "q", "r", "s", "t", "u", "v", "w", "x", "y", "z">>

LowerChar(c) ==
    IF \E k \in 1..26 : UpperChars[k] = c
    THEN LowerChars[CHOOSE k \in 1..26 : UpperChars[k] = c]
    ELSE c

\* str.toLowerCase(), as the i flag of a regular expression compares; computed by
\* halves
RECURSIVE ToLowerCase(_)
ToLowerCase(str) ==
    IF str = "" THEN ""
    ELSE IF Len(str) = 1 THEN LowerChar(str)
    ELSE LET half == Len(str) \div 2
         IN ToLowerCase(SubSeq(str, 1, half)) \o ToLowerCase(SubSeq(str, half + 1, Len(str)))

\* line.match(/key="([^"]*)"/) or, with ignoreCase, /key="([^"]*)"/i: the captured
\* group, or << >> for no match
AttributeMatch(line, key, ignoreCase) ==
    LET hay == IF ignoreCase THEN ToLowerCase(line) ELSE line
        opens == {i \in Occurrences(hay, key \o "=\"") :
                    \E q \in Occurrences(line, "\"") : q >= i + Len(key) + 2}
    IN IF opens = {} THEN << >>
       ELSE LET from == Least(opens) + Len(key) + 2
                close == Least({q \in Occurrences(line, "\"") : q >= from})
            IN <<SubSeq(line, from, close - 1)>>

\* extractEpgUrl(headerLine)
extractEpgUrl(headerLine) ==
    LET urlTvgMatch == AttributeMatch(headerLine, "url-tvg", TRUE)
        xTvgUrlMatch == AttributeMatch(headerLine, "x-tvg-url", TRUE)
    IN IF ~Falsy(urlTvgMatch) THEN urlTvgMatch
       ELSE IF ~Falsy(xTvgUrlMatch) THEN xTvgUrlMatch
       ELSE << >>

\* variant: the name is what follows the first comma
parseExtinf_FirstComma(line) ==
    LET commas == Occurrences(line, ",")
        tvgIdMatch == AttributeMatch(line, "tvg-id", TRUE)
    IN [name |-> IF commas = {} THEN << >>
                 ELSE <<Trim(SubSeq(line, Least(commas) + 1, Len(line)))>>,
        tvg_id |-> IF ~Falsy(tvgIdMatch) THEN tvgIdMatch ELSE << >>,
        logo |-> AttributeMatch(line, "tvg-logo", FALSE),
        group |-> AttributeMatch(line, "group-title", FALSE)]

\* parseExtinf(line): the fields it sets
parseExtinf(line) ==
    LET commas == Occurrences(line, ",")
        tvgIdMatch == AttributeMatch(line, "tvg-id", TRUE)
    IN [name |-> IF commas = {} THEN << >>
                 ELSE <<Trim(SubSeq(line, Greatest(commas) + 1, Len(line)))>>,
        tvg_id |-> IF ~Falsy(tvgIdMatch) THEN tvgIdMatch ELSE << >>,
        logo |-> AttributeMatch(line, "tvg-logo", FALSE),
        group |-> AttributeMatch(line, "group-title", FALSE)]

\* isValidUrl(urlString): new URL(urlString) succeeds for an http or https URL when
\* a host without blanks follows the scheme and its slashes
isValidUrl(urlString) ==
    LET colons == Occurrences(urlString, ":")
    IN /\ colons # {}
       /\ LET scheme == ToLowerCase(SubSeq(urlString, 1, Least(colons) - 1))
              rest == SubSeq(urlString, Least(colons) + 1, Len(urlString))
              slashes == {i \in 1..Len(rest) :
                            \A k \in 1..i : CharAt(rest, k) \in {"/", "\\"}}
              hostFrom == IF slashes = {} THEN 1 ELSE Greatest(slashes) + 1
              ends == {i \in hostFrom..Len(rest) : CharAt(rest, i) \in {"/", "\\", "?", "#"}}
              hostTo == IF ends = {} THEN Len(rest) ELSE Least(ends) - 1
              host == SubSeq(rest, hostFrom, hostTo)
          IN /\ scheme \in {"http", "https"}
             /\ host # ""
             /\ Occurrences(host, " ") = {}

\* `${n}` for n >= 0
RECURSIVE NumberToString(_)
NumberToString(n) ==
    IF n < 10 THEN DigitChars[n + 1]
    ELSE NumberToString(n \div 10) \o DigitChars[(n % 10) + 1]

\* content.split('\n'): the texts between the line feeds
Split(content) ==
    LET feeds == Occurrences(content, "\n")
        n == Cardinality(feeds)
        \* the position of the k-th line feed; 0 before the text, Len + 1 after it
        feed(k) == IF k = 0 THEN 0
                   ELSE IF k > n THEN Len(content) + 1
                   ELSE CHOOSE i \in feeds : Cardinality({q \in feeds : q < i}) = k - 1
    IN [k \in 1..(n + 1) |-> SubSeq(content, feed(k - 1) + 1, feed(k) - 1)]

\* the loop of parseM3U from line i (counted from 1) on; currentChannel is << >>
\* for null
RECURSIVE M3ULoop(_, _, _, _, _)
M3ULoop(lines, i, currentChannel, channels, errors) ==
    IF i > Len(lines) THEN [channels |-> channels, errors |-> errors]
    ELSE LET line == lines[i]
         IN IF line = "" \/ (StartsWith(line, "#") /\ ~StartsWith(line, "#EXTINF"))
            THEN M3ULoop(lines, i + 1, currentChannel, channels, errors)
            ELSE IF StartsWith(line, "#EXTINF")
            THEN M3ULoop(lines, i + 1, <<parseExtinf(line)>>, channels, errors)
            ELSE IF currentChannel # << >> /\ isValidUrl(line)
            THEN IF ~Falsy(currentChannel[1].name)
                 THEN M3ULoop(lines, i + 1, << >>,
                        Append(channels,
                            [name |-> currentChannel[1].name[1], url |-> line,
                             tvg_id |-> currentChannel[1].tvg_id,
                             logo |-> currentChannel[1].logo,
                             group |-> currentChannel[1].group]),
                        errors)
                 ELSE M3ULoop(lines, i + 1, << >>, channels,
                        Append(errors, "Skipped channel with missing data at line "
                                            \o NumberToString(i)))
            ELSE M3ULoop(lines, i + 1, currentChannel, channels, errors)

\* the trimmed lines of a body
TrimmedLines(content) ==
    LET raw == Split(content)
    IN [k \in 1..Len(raw) |-> Trim(raw[k])]

\* parseM3U(url), given what fetch(url) answers
parseM3U(response) ==
    IF response.kind = "throws"
    THEN [channels |-> << >>, errors |-> <<"Error parsing M3U: " \o response.text>>,
          epg_url |-> << >>]
    ELSE IF response.kind # "ok"
    THEN [channels |-> << >>,
          errors |-> <<"Failed to fetch M3U: " \o response.status \o " " \o response.text>>,
          epg_url |-> << >>]
    ELSE LET lines == TrimmedLines(response.text)
         IN IF Len(lines) = 0 \/ ~StartsWith(lines[1], "#EXTM3U")
            THEN [channels |-> << >>,
                  errors |-> <<"Invalid M3U file: missing #EXTM3U header">>,
                  epg_url |-> << >>]
            ELSE LET parsed == M3ULoop(lines, 2, << >>, << >>, << >>)
                 IN [channels |-> parsed.channels, errors |-> parsed.errors,
                     epg_url |-> extractEpgUrl(lines[1])]

----------------------------------------------------------------------------
(* Playlists given to parseM3U: a first line and up to MaxLines further    *)
(* lines, joined by line feeds; or a fetch that fails.                     *)

HeaderLines == {"#EXTM3U", "#EXTM3U url-tvg=\"http://epg/x.xml\"", ""}

BodyLines ==
    {"#EXTINF:-1 tvg-id=\"bbc1\" tvg-logo=\"http://img/1.png\" group-title=\"News, World\",BBC One",
     "#EXTINF:-1, Two, HD ",
     "#EXTINF:-1 tvg-id=\"x\"",
     "#EXTINF:0, ",
     "http://tv/1",
     "  HTTPS://tv/2?a=1\r",
     "rtmp://tv/3",
     "",
     "#EXTVLCOPT:http-user-agent=x"}

MaxLines == 3

RECURSIVE JoinLines(_)
JoinLines(lines) ==
    IF lines = << >> THEN "" ELSE "\n" \o Head(lines) \o JoinLines(Tail(lines))

Response(kind, status, text) == [kind |-> kind, status |-> status, text |-> text]

\* two complete entries and one metadata line that no URL line follows: before
\* another metadata line, between the entries, and at the end of the feed
DanglingFeeds ==
    {"#EXTM3U\n#EXTINF:-1,Lost\n#EXTINF:-1,One\nhttp://tv/1\n#EXTINF:-1,Two\nhttp://tv/2",
     "#EXTM3U\n#EXTINF:-1,One\nhttp://tv/1\n#EXTINF:-1,Lost\n#EXTINF:-1,Two\nhttp://tv/2",
     "#EXTM3U\n#EXTINF:-1,One\nhttp://tv/1\n#EXTINF:-1,Two\nhttp://tv/2\n#EXTINF:-1,Lost"}

\* bodies whose header is preceded by white space: on its own line, or by blank lines
LeadingBlankFeeds ==
    {"  #EXTM3U\n#EXTINF:-1,One\nhttp://tv/1",
     "\n#EXTM3U\n#EXTINF:-1,One\nhttp://tv/1",
     "\r\n\n#EXTM3U\n#EXTINF:-1,One\nhttp://tv/1\n\n"}

M3UResponses ==
    {Response("ok", "200", h \o JoinLines(b)) :
        h \in HeaderLines, b \in UNION {[1..n -> BodyLines] : n \in 0..MaxLines}}
    \cup {Response("ok", "200", text) : text \in DanglingFeeds \cup LeadingBlankFeeds}
    \cup {Response("http_error", "404", "Not Found"),
          Response("throws", "", "fetch failed")}

InitM3U ==
    /\ IdleCache
    /\ input \in M3UResponses
    /\ output = << >>

\* await parseM3U(url)
ParseM3U ==
    /\ output = << >>
    /\ output' = <<parseM3U(input)>>
    /\ UNCHANGED <<cacheVars, webVars, input>>

NextM3U == ParseM3U

SpecM3U == InitM3U /\ [][NextM3U]_vars

----------------------------------------------------------------------------
(* Failed fetches on both sides: parseM3U is given a fetch that fails      *)
(* while requests, one after the other, refresh the guide from an upstream *)
(* that may fail in the same ways.                                         *)

FailedFetches ==
    {Response("http_error", "404", "Not Found"),
     Response("http_error", "500", "Internal Server Error"),
     Response("throws", "", "fetch failed")}

InitFetchFailure ==
    /\ IdleCache
    /\ input \in FailedFetches
    /\ output = << >>

NextFetchFailure ==
    \/ NextSeq
    \/ \E p \in Procs, feed \in FaultFeeds : Fetch(p, feed)
    \/ \E p \in Procs : StatementFails(p)
    \/ ParseM3U

SpecFetchFailure == InitFetchFailure /\ [][NextFetchFailure]_vars

----------------------------------------------------------------------------
(* routes/auth.ts: login, logout and refresh.  A handler reads the users   *)
(* table, which does not change, and issues at most one statement on the   *)
(* sessions table: it is one step.  In the specifications of this part and *)
(* of the favorites routes the unit of clock is 15 minutes.  A signed JWT  *)
(* is determined by its claims: it is the record of them.                  *)

Users == {"alice", "bob"}

MaxAuthCalls == 4

\* '15m', '7d' and 7 * 24 * 60 * 60 * 1000 ms
JwtExpiresIn == 1
RefreshTokenExpiresIn == 7 * 24 * 4
SessionLifetime == 7 * 24 * 4

generateToken(userId, expiresIn, now) ==
    [userId |-> userId, iat |-> now, exp |-> now + expiresIn]

generateRefreshToken(userId, expiresIn, now) == generateToken(userId, expiresIn, now)

\* the payload of a token this server signed, null once it has expired
verifyToken(token, now) ==
    IF token.exp > now THEN <<[userId |-> token.userId]>> ELSE << >>

\* SELECT * FROM sessions WHERE token = ? AND expires_at > ?
findSessionByToken(table, token, now) ==
    LET hits == {s \in table : s.token = token /\ s.expires_at > now}
    IN IF hits = {} THEN << >> ELSE <<CHOOSE s \in hits : TRUE>>

\* DELETE FROM sessions WHERE token = ?
deleteSession(table, token) == {s \in table : s.token # token}

\* request number n with the token it presented, and the answer of its handler
\* with the tokens it carries
Answer(n, route, token, status, error, accessToken, refreshToken) ==
    [pc |-> "done", n |-> n, route |-> route, token |-> token, status |-> status,
     error |-> error, accessToken |-> accessToken, refreshToken |-> refreshToken]

\* POST /auth/login with the email of a user and a password, right or wrong; the
\* column sessions.token is UNIQUE
Login(p, user, password) ==
    /\ calls' = calls + 1
    /\ LET accessToken == generateToken(user, JwtExpiresIn, clock)
           refreshToken == generateRefreshToken(user, RefreshTokenExpiresIn, clock)
       IN IF ~password
          THEN /\ web' = [web EXCEPT ![p] =
                        Answer(calls + 1, "login", << >>, 401, "Invalid email or password",
                               << >>, << >>)]
               /\ UNCHANGED <<sessions, tokens>>
          ELSE IF \E s \in sessions : s.token = refreshToken
          THEN /\ web' = [web EXCEPT ![p] =
                        Answer(calls + 1, "login", << >>, 500, "Internal server error",
                               << >>, << >>)]
               /\ UNCHANGED <<sessions, tokens>>
          ELSE /\ sessions' = sessions \cup
                    {[user_id |-> user, token |-> refreshToken,
                      expires_at |-> clock + SessionLifetime]}
               /\ tokens' = tokens \cup
                    {[accessToken |-> accessToken, refreshToken |-> refreshToken,
                      loggedOut |-> FALSE]}
               /\ web' = [web EXCEPT ![p] =
                        Answer(calls + 1, "login", << >>, 200, "",
                               <<accessToken>>, <<refreshToken>>)]
    /\ UNCHANGED <<clock, epg_sources, epg_programs, pc, loc, ret, lastFailure,
                   input, output, favorites>>

\* the tokens a client can present: those a login has answered with
Presentable == {t.accessToken : t \in tokens} \cup {t.refreshToken : t \in tokens}

\* POST /auth/logout with Authorization: Bearer token; authMiddleware, then
\* deleteSession(db, token)
Logout(p, token) ==
    /\ calls' = calls + 1
    /\ IF verifyToken(token, clock) = << >>
       THEN /\ web' = [web EXCEPT ![p] =
                    Answer(calls + 1, "logout", <<token>>, 401,
                           "Unauthorized: Invalid token", << >>, << >>)]
            /\ UNCHANGED <<sessions, tokens>>
       ELSE /\ sessions' = deleteSession(sessions, token)
            /\ tokens' = {IF t.accessToken = token THEN [t EXCEPT !.loggedOut = TRUE] ELSE t :
                            t \in tokens}
            /\ web' = [web EXCEPT ![p] =
                    Answer(calls + 1, "logout", <<token>>, 200, "", << >>, << >>)]
    /\ UNCHANGED <<clock, epg_sources, epg_programs, pc, loc, ret, lastFailure,
                   input, output, favorites>>

\* POST /auth/refresh with {refreshToken}
Refresh(p, refreshToken) ==
    /\ calls' = calls + 1
    /\ LET payload == verifyToken(refreshToken, clock)
           session == findSessionByToken(sessions, refreshToken, clock)
       IN web' = [web EXCEPT ![p] =
            IF payload = << >>
            THEN Answer(calls + 1, "refresh", <<refreshToken>>, 401,
                        "Invalid refresh token", << >>, << >>)
            ELSE IF session = << >>
            THEN Answer(calls + 1, "refresh", <<refreshToken>>, 401,
                        "Session not found or expired", << >>, << >>)
            ELSE Answer(calls + 1, "refresh", <<refreshToken>>, 200, "",
                        <<generateToken(payload[1].userId, JwtExpiresIn, clock)>>, << >>)]
    /\ UNCHANGED <<clock, epg_sources, epg_programs, pc, loc, ret, lastFailure,
                   input, output, sessions, favorites, tokens>>

\* 15 minutes pass
QuarterHour ==
    /\ clock < MaxClock
    /\ clock' = clock + 1
    /\ UNCHANGED <<epg_sources, epg_programs, pc, loc, ret, calls, lastFailure,
                   input, output, webVars>>

NextAuth ==
    \/ \E p \in Procs, user \in Users, password \in BOOLEAN :
            calls < MaxAuthCalls /\ Login(p, user, password)
    \/ \E p \in Procs, token \in Presentable :
            calls < MaxAuthCalls /\ Logout(p, token)
    \/ \E p \in Procs, token \in Presentable :
            calls < MaxAuthCalls /\ Refresh(p, token)
    \/ QuarterHour

SpecAuth == Init /\ [][NextAuth]_vars

----------------------------------------------------------------------------
(* routes/favorites.ts: POST /favorites and DELETE /favorites/:id of       *)
(* authenticated users.  Each awaited statement is one step, and requests  *)
(* interleave at the awaits.                                               *)

MaxFavoriteCalls == 3

FavoriteNames == {"One", " "}

FavoriteUrls == {"http://tv/1", "http://tv/1 ", "HTTPS://tv/2", "ftp://tv/3", ""}

\* /^https?:\/\/.+/i.test(url)
urlPattern(url) ==
    LET lower == ToLowerCase(url)
        rest(k) == Len(url) > k /\ CharAt(url, k + 1) \notin {"\n", "\r"}
    IN \/ StartsWith(lower, "http://") /\ rest(7)
       \/ StartsWith(lower, "https://") /\ rest(8)

\* SELECT * FROM favorites WHERE user_id = ? AND channel_url = ?
getFavoriteByUserAndUrl(table, userId, channelUrl) ==
    LET hits == {f \in table : f.user_id = userId /\ f.channel_url = channelUrl}
    IN IF hits = {} THEN << >> ELSE <<CHOOSE f \in hits : TRUE>>

\* SELECT id FROM favorites WHERE id = ? AND user_id = ?
isFavoriteOwner(table, favoriteId, userId) ==
    \E f \in table : f.id = favoriteId /\ f.user_id = userId

\* DELETE FROM favorites WHERE id = ?
deleteFavorite(table, favoriteId) == {f \in table : f.id # favoriteId}

\* request number n of a user, the await it is suspended at, and its answer
FavoriteRequest(pos, n, route, user, name, url, id, status, error) ==
    [pc |-> pos, n |-> n, route |-> route, user |-> user, name |-> name, url |-> url,
     id |-> id, status |-> status, error |-> error]

\* POST /favorites up to `await getFavoriteByUserAndUrl(...)` and the test of what
\* it found
PostFavorite(p, user, name, url) ==
    /\ web[p].pc \in {"idle", "done"}
    /\ calls' = calls + 1
    /\ LET answer(status, error) ==
                FavoriteRequest("done", calls + 1, "create", user, name, url, 0, status, error)
       IN web' = [web EXCEPT ![p] =
            IF name = "" \/ url = ""
            THEN answer(400, "Channel name and URL are required")
            ELSE IF Len(Trim(name)) < 1 \/ Len(name) > 200
            THEN answer(400, "Channel name must be between 1 and 200 characters")
            ELSE IF ~urlPattern(url)
            THEN answer(400, "Invalid channel URL format. Must start with http:// or https://")
            ELSE IF getFavoriteByUserAndUrl(favorites, user, url) # << >>
            THEN answer(409, "Channel is already in favorites")
            ELSE FavoriteRequest("create", calls + 1, "create", user, name, url, 0, 0, "")]
    /\ UNCHANGED <<clock, epg_sources, epg_programs, pc, loc, ret, lastFailure,
                   input, output, sessions, favorites, tokens>>

\* await createFavorite(db, userId, channel_name.trim(), channel_url.trim(), ...):
\* the INSERT, which idx_favorites_user_channel (UNIQUE) may refuse; generateUUID()
\* is the number of the request
CreateFavorite(p) ==
    /\ web[p].pc = "create"
    /\ LET r == web[p]
           row == [id |-> r.n, user_id |-> r.user, channel_name |-> Trim(r.name),
                   channel_url |-> Trim(r.url)]
       IN IF \E f \in favorites : f.user_id = row.user_id /\ f.channel_url = row.channel_url
          THEN /\ web' = [web EXCEPT ![p] =
                    [r EXCEPT !.pc = "done", !.status = 500,
                              !.error = "Failed to create favorite"]]
               /\ UNCHANGED favorites
          ELSE /\ favorites' = favorites \cup {row}
               /\ web' = [web EXCEPT ![p] =
                    [r EXCEPT !.pc = "done", !.status = 201, !.id = row.id]]
    /\ UNCHANGED <<clock, epg_sources, epg_programs, pc, loc, ret, calls, lastFailure,
                   input, output, sessions, tokens>>

\* DELETE /favorites/:id up to `await isFavoriteOwner(...)` and its test
DeleteFavoriteById(p, user, id) ==
    /\ web[p].pc \in {"idle", "done"}
    /\ calls' = calls + 1
    /\ web' = [web EXCEPT ![p] =
            IF ~isFavoriteOwner(favorites, id, user)
            THEN FavoriteRequest("done", calls + 1, "delete", user, "", "", id, 404,
                                 "Favorite not found or access denied")
            ELSE FavoriteRequest("delete", calls + 1, "delete", user, "", "", id, 0, "")]
    /\ UNCHANGED <<clock, epg_sources, epg_programs, pc, loc, ret, lastFailure,
                   input, output, sessions, favorites, tokens>>

\* await deleteFavorite(db, favoriteId)
DeleteFavorite(p) ==
    /\ web[p].pc = "delete"
    /\ favorites' = deleteFavorite(favorites, web[p].id)
    /\ web' = [web EXCEPT ![p] = [web[p] EXCEPT !.pc = "done", !.status = 200]]
    /\ UNCHANGED <<clock, epg_sources, epg_programs, pc, loc, ret, calls, lastFailure,
                   input, output, sessions, tokens>>

NextFavorites ==
    \/ \E p \in Procs, user \in Users, name \in FavoriteNames, url \in FavoriteUrls :
            calls < MaxFavoriteCalls /\ PostFavorite(p, user, name, url)
    \/ \E p \in Procs : CreateFavorite(p)
    \/ \E p \in Procs, user \in Users, id \in 1..calls :
            calls < MaxFavoriteCalls /\ DeleteFavoriteById(p, user, id)
    \/ \E p \in Procs : DeleteFavorite(p)

SpecFavorites == Init /\ [][NextFavorites]_vars

----------------------------------------------------------------------------
(* The two refresh operations run to completion, each on its own copy of   *)
(* the same tables, with the same answer of the upstream and at the same   *)
(* time.                                                                   *)

\* insertEPGPrograms(db, sourceId, programs): every batch, from offset i on
RECURSIVE insertEPGPrograms(_, _, _, _)
insertEPGPrograms(programs, sourceId, progs, i) ==
    IF i >= Len(progs) THEN programs
    ELSE insertEPGPrograms(InsertChunk(programs, sourceId, progs, i), sourceId, progs,
                           i + chunkSize)

\* getOrCreateEPGSource(db, playlistId, epgUrl) on a table: the table afterwards and
\* the source returned
getOrCreateEPGSource(sources, playlistId, epgUrl) ==
    LET existing == SelectSource(sources, playlistId)
    IN IF existing = << >>
       THEN LET source == NewSource(Len(sources) + 1, playlistId, epgUrl)
            IN [sources |-> Append(sources, source), source |-> source]
       ELSE IF existing[1].epg_url # epgUrl
       THEN [sources |-> UpdateSourceUrl(sources, existing[1].id, epgUrl),
             source |-> ReboundSource(existing[1], epgUrl)]
       ELSE [sources |-> sources, source |-> existing[1]]

\* refreshEPGIfNeeded (op = "ensure") or POST /epg/:playlistId/refresh (op = "force")
\* from the tables `stored`, with no other request in between: the tables afterwards
RunRefresh(op, stored, playlistId, epgUrl, feed, now) ==
    LET got == getOrCreateEPGSource(stored.sources, playlistId, epgUrl)
        id == got.source.id
        result == fetchAndParseXMLTV(feed, now)
        pruned == IF op = "ensure" THEN cleanupOldPrograms(stored.programs, id, now)
                  ELSE stored.programs
    IN IF op = "ensure" /\ ~shouldRefreshEPG(got.source, now)
       THEN [sources |-> got.sources, programs |-> stored.programs]
       ELSE IF TotalFailure(result)
       THEN [sources |-> updateEPGSourceFetch(got.sources, id, <<JoinErrors(result.errors)>>, now),
             programs |-> stored.programs]
       ELSE [sources |-> updateEPGSourceFetch(got.sources, id, << >>, now),
             programs |-> insertEPGPrograms(clearEPGPrograms(pruned, id), id,
                                            result.programs, 0)]

\* tables the cache can hold: no source, or the source of the playlist with some
\* programs stored for it
StoredPrograms == <<ProgA, ProgB, ProgOverlap>>

MaxStored == 2

StoredTables ==
    {[sources |-> << >>, programs |-> << >>]}
    \cup {[sources |-> <<[NewSource(1, "pl1", "u1") EXCEPT !.last_fetched = lf,
                                                          !.fetch_error = fe]>>,
           programs |-> [k \in 1..n |-> ProgramRow(1, ParseProgramme(StoredPrograms[ix[k]], 1)[1])]] :
            lf \in {<< >>, <<1>>, <<3>>}, fe \in {<< >>, << <<"Failed to fetch XMLTV">> >>},
            n \in 0..MaxStored, ix \in [1..MaxStored -> 1..Len(StoredPrograms)]}

MaxNow == 6

RefreshInputs ==
    [stored : StoredTables, playlistId : Playlists, epgUrl : Urls,
     feed : Feeds \cup FaultFeeds, now : 1..MaxNow]

InitRefresh ==
    /\ IdleCache
    /\ input \in RefreshInputs
    /\ output = << >>

\* both operations, each from the same tables
RunBoth ==
    /\ output = << >>
    /\ output' = <<[op \in {"ensure", "force"} |->
                    RunRefresh(op, input.stored, input.playlistId, input.epgUrl,
                               input.feed, input.now)]>>
    /\ UNCHANGED <<cacheVars, webVars, input>>

NextRefresh == RunBoth

SpecRefresh == InitRefresh /\ [][NextRefresh]_vars

----------------------------------------------------------------------------
(* Vocabulary of the properties *)

\* the staleness rule as the specification words it: never fetched, or fetched
\* more than one hour before now
StaleAt(lastFetched, now) == lastFetched = << >> \/ now - lastFetched[1] > OneHour

\* this step is request p issuing its first statement
EntryStep(p) == calls' = calls + 1 /\ loc'[p].n = calls'

\* this step is request p leaving the await `from`
Leaves(p, from) == pc[p] = from /\ pc'[p] # from

\* this step is a step of request p
StepOf(p) == EntryStep(p) \/ (pc[p] \notin {"idle", "done"} /\ pc'[p] # pc[p])

\* the contents of the rows stored for a source, and of a parsed list stored for it
StoredSet(programs, sourceId) ==
    {programs[k] : k \in {j \in 1..Len(programs) : programs[j].epg_source_id = sourceId}}

ParsedSet(progs, sourceId) == {ProgramRow(sourceId, progs[k]) : k \in 1..Len(progs)}

Refreshing == {"fetch", "cleanup", "clear", "insert", "stamp"}

----------------------------------------------------------------------------
\* C1: refreshEPGIfNeeded decides "stale" exactly when the source it got from
\* getOrCreateEPGSource has no last_fetched or one more than an hour before now, and
\* it fetches upstream if and only if it decided "stale": the decision leads to the
\* fetch await or to the return, and a fetch is only ever performed from that await.
C1_StaleIffFetch ==
    [][\A p \in Procs :
        /\ (loc'[p].op = "ensure" /\
            ((EntryStep(p) /\ pc'[p] \notin {"create", "rebind"})
                \/ Leaves(p, "create") \/ Leaves(p, "rebind")))
           => /\ pc'[p] \in {"fetch", "done"}
              /\ ~loc'[p].fetched
              /\ pc'[p] = "fetch" => StaleAt(loc'[p].source[1].last_fetched, clock)
              /\ pc'[p] = "done" =>
                    /\ ~StaleAt(ret'[p][1].source[1].last_fetched, clock)
                    /\ ret'[p][1].refreshed = FALSE
        /\ (loc'[p].fetched /\ ~EntryStep(p)) => (loc[p].fetched \/ pc[p] = "fetch")
        /\ Leaves(p, "fetch") => loc'[p].fetched
    ]_vars

\* a request that found the source fetched 90 minutes ago and is about to fetch
C1_Witness ==
    \E p \in Procs :
        /\ pc[p] = "fetch" /\ loc[p].op = "ensure"
        /\ loc[p].source[1].last_fetched = <<clock - 3>>

\* C2: when refreshEPGIfNeeded has parsed successfully and returns, the programs
\* stored for the source are exactly the parsed ones, last_fetched is the time of
\* the stamp and fetch_error is NULL.
C2_ReplacedExactly ==
    [][\A p \in Procs :
        (loc[p].op = "ensure" /\ Leaves(p, "stamp")) =>
            LET id == loc[p].source[1].id
            IN /\ StoredSet(epg_programs', id) = ParsedSet(loc[p].result.programs, id)
               /\ epg_sources'[id].last_fetched = <<clock>>
               /\ epg_sources'[id].fetch_error = << >>
               /\ ret'[p][1].refreshed = TRUE
    ]_vars

\* C3: on a total failure refreshEPGIfNeeded writes the joined errors to the source's
\* fetch_error, returns refreshed = false with that error, and none of its steps
\* changes epg_programs.
C3_FailureRecorded ==
    [][\A p \in Procs :
        loc'[p].op = "ensure" =>
            /\ (Leaves(p, "fetch") /\ TotalFailure(loc'[p].result)) =>
                    /\ pc'[p] = "record_failure"
                    /\ UNCHANGED <<epg_sources, epg_programs>>
            /\ Leaves(p, "record_failure") =>
                    LET error == JoinErrors(loc[p].result.errors)
                    IN /\ error # << >>
                       /\ epg_sources'[loc[p].source[1].id].fetch_error = <<error>>
                       /\ pc'[p] = "done"
                       /\ ret'[p][1].refreshed = FALSE
                       /\ ret'[p][1].error = <<error>>
            /\ (StepOf(p) /\ pc'[p] \in {"create", "rebind", "fetch", "record_failure"})
                    => UNCHANGED epg_programs
            /\ Leaves(p, "record_failure") => UNCHANGED epg_programs
    ]_vars

\* a failed refreshEPGIfNeeded has returned and the source still has its programs
C3_Witness ==
    \E p \in Procs :
        /\ pc[p] = "done" /\ loc[p].op = "ensure"
        /\ ret[p][1].error # << >>
        /\ ret[p][1].refreshed = FALSE
        /\ StoredSet(epg_programs, ret[p][1].source[1].id) # {}
        /\ epg_sources[ret[p][1].source[1].id].fetch_error = ret[p][1].error

\* C4 as claimed: once a total failure was recorded at time t for a playlist and url,
\* every refreshEPGIfNeeded for them that starts before t + one hour returns at once,
\* not refreshed, with a source that carries the recorded error.
C4_NoRetryWithinHour ==
    [][\A p \in Procs :
        (EntryStep(p) /\ loc'[p].op = "ensure") =>
            LET f == lastFailure[<<loc'[p].playlistId, loc'[p].epgUrl>>]
            IN (f # << >> /\ clock < f[1].at + OneHour) =>
                    /\ pc'[p] = "done"
                    /\ ret'[p][1].refreshed = FALSE
                    /\ ret'[p][1].source[1].fetch_error = <<f[1].error>>
    ]_vars

\* C4 amended: the same, as long as the source row of the playlist still holds that
\* failure record (no later successful refresh and no url rebinding overwrote it).
C4_NoRetryWhileRecorded ==
    [][\A p \in Procs :
        (EntryStep(p) /\ loc'[p].op = "ensure") =>
            LET f == lastFailure[<<loc'[p].playlistId, loc'[p].epgUrl>>]
                existing == SelectSource(epg_sources, loc'[p].playlistId)
            IN (/\ f # << >> /\ clock < f[1].at + OneHour
                /\ existing # << >>
                /\ existing[1].epg_url = loc'[p].epgUrl
                /\ existing[1].last_fetched = <<f[1].at>>
                /\ existing[1].fetch_error = <<f[1].error>>) =>
                    /\ pc'[p] = "done"
                    /\ ~loc'[p].fetched
                    /\ ret'[p][1].refreshed = FALSE
                    /\ ret'[p][1].error = << >>
                    /\ ret'[p][1].source[1].fetch_error = <<f[1].error>>
    ]_vars

\* a request has returned without fetching, with a source that carries an error
C4_Witness ==
    \E p \in Procs :
        /\ pc[p] = "done" /\ loc[p].op = "ensure" /\ ~loc[p].fetched
        /\ ret[p][1].refreshed = FALSE
        /\ ret[p][1].source[1].fetch_error # << >>
        /\ lastFailure[<<loc[p].playlistId, loc[p].epgUrl>>] # << >>

\* C5: epg_sources never holds two rows with the same playlist_id.
C5_OneSourcePerPlaylist ==
    \A i, j \in 1..Len(epg_sources) :
        epg_sources[i].playlist_id = epg_sources[j].playlist_id => i = j

\* C6: a request that finds the playlist's row with another url goes on to rebind
\* it; the rebinding sets the row's url and clears last_fetched and fetch_error, and
\* refreshEPGIfNeeded then goes to the upstream fetch, which it performs.
C6_RebindResetsAndFetches ==
    [][\A p \in Procs :
        /\ EntryStep(p) =>
              LET existing == SelectSource(epg_sources, loc'[p].playlistId)
              IN (existing # << >> /\ existing[1].epg_url # loc'[p].epgUrl)
                    => (pc'[p] = "rebind" /\ loc'[p].existing = existing)
        /\ Leaves(p, "rebind") =>
              LET id == loc[p].existing[1].id
              IN /\ epg_sources'[id].epg_url = loc[p].epgUrl
                 /\ epg_sources'[id].last_fetched = << >>
                 /\ epg_sources'[id].fetch_error = << >>
                 /\ pc'[p] = "fetch"
                 /\ loc'[p].source[1] = epg_sources'[id]
        /\ Leaves(p, "fetch") => loc'[p].fetched
    ]_vars

\* refreshEPGIfNeeded is about to fetch for a row that was stamped at this very time
\* under another url
C6_Witness ==
    \E p \in Procs :
        /\ pc[p] = "fetch" /\ loc[p].op = "ensure"
        /\ loc[p].existing # << >>
        /\ loc[p].existing[1].epg_url # loc[p].epgUrl
        /\ loc[p].existing[1].last_fetched = <<clock>>

\* C7: refreshEPGIfNeeded for a playlist whose row has the same url and was fetched
\* at most an hour ago returns in its first step with refreshed = false and that row,
\* without a fetch, and changes neither epg_sources nor epg_programs.
C7_FreshReturnsUnchanged ==
    [][\A p \in Procs :
        (EntryStep(p) /\ loc'[p].op = "ensure") =>
            LET existing == SelectSource(epg_sources, loc'[p].playlistId)
            IN (/\ existing # << >>
                /\ existing[1].epg_url = loc'[p].epgUrl
                /\ ~StaleAt(existing[1].last_fetched, clock)) =>
                    /\ pc'[p] = "done"
                    /\ ~loc'[p].fetched
                    /\ ret'[p] = <<[source |-> existing, refreshed |-> FALSE, error |-> << >>]>>
                    /\ UNCHANGED <<epg_sources, epg_programs>>
    ]_vars

\* a request has returned "fresh" while programs are stored for its source
C7_Witness ==
    \E p \in Procs :
        /\ pc[p] = "done" /\ loc[p].op = "ensure" /\ ~loc[p].fetched
        /\ ret[p][1].refreshed = FALSE /\ ret[p][1].error = << >>
        /\ ret[p][1].source[1].fetch_error = << >>
        /\ StoredSet(epg_programs, ret[p][1].source[1].id) # {}

\* C8: the refresh route always goes to the upstream fetch, whatever last_fetched
\* is, and when it has parsed successfully and returns, the programs stored for the
\* source are exactly the parsed ones and last_fetched is the time of the stamp.
C8_ForceAlwaysReplaces ==
    [][\A p \in Procs :
        /\ (loc'[p].op = "force" /\
            ((EntryStep(p) /\ pc'[p] \notin {"create", "rebind"})
                \/ Leaves(p, "create") \/ Leaves(p, "rebind")))
           => pc'[p] = "fetch"
        /\ (loc[p].op = "force" /\ Leaves(p, "fetch")) => loc'[p].fetched
        /\ (loc[p].op = "force" /\ Leaves(p, "stamp")) =>
            LET id == loc[p].source[1].id
            IN /\ StoredSet(epg_programs', id) = ParsedSet(loc[p].result.programs, id)
               /\ epg_sources'[id].last_fetched = <<clock>>
    ]_vars

\* C9: no refresh in flight keeps refreshEPGIfNeeded from deciding "stale": a request
\* that finds the playlist's row stale while another request is between its fetch and
\* its stamp for that same row goes to the upstream fetch all the same.
C9_NoSingleFlight ==
    [][\A p, q \in Procs :
        (/\ p # q
         /\ EntryStep(p) /\ loc'[p].op = "ensure"
         /\ pc[q] \in Refreshing) =>
            LET existing == SelectSource(epg_sources, loc'[p].playlistId)
            IN (/\ existing # << >>
                /\ existing[1].id = loc[q].source[1].id
                /\ existing[1].epg_url = loc'[p].epgUrl
                /\ StaleAt(existing[1].last_fetched, clock)) =>
                    pc'[p] = "fetch"
    ]_vars

\* two refreshEPGIfNeeded requests have both fetched, both cleared and both inserted
\* for the same source, and neither has stamped yet
C9_Witness ==
    \E p, q \in Procs :
        /\ p # q
        /\ pc[p] = "stamp" /\ pc[q] = "stamp"
        /\ loc[p].op = "ensure" /\ loc[q].op = "ensure"
        /\ loc[p].fetched /\ loc[q].fetched
        /\ loc[p].i > 0 /\ loc[q].i > 0
        /\ loc[p].source[1].id = loc[q].source[1].id

\* C10: every program a parse has produced and every stored program has
\* start_time < end_time.
C10_StartBeforeEnd ==
    /\ \A k \in 1..Len(epg_programs) :
            epg_programs[k].start_time < epg_programs[k].end_time
    /\ \A p \in Procs : \A k \in 1..Len(loc[p].result.programs) :
            loc[p].result.programs[k].start_time < loc[p].result.programs[k].end_time

\* C11: a parse made at time now emits no program that has already ended at now
\* (intervals are half-open, so a program with end_time <= now has ended) and none
\* that starts more than 48 hours after now.
C11_WindowFilter ==
    [][\A p \in Procs :
        Leaves(p, "fetch") =>
            \A k \in 1..Len(loc'[p].result.programs) :
                LET prog == loc'[p].result.programs[k]
                IN /\ prog.end_time > clock
                   /\ prog.start_time <= clock + FortyEightHours
    ]_vars

\* a text of the form YYYYMMDDHHMMSS, then nothing or an offset +HHMM / -HHMM
\* after optional blanks
WellFormedTimestamp(text) ==
    LET s == Trim(text)
        rest == TrimStart(SubSeq(s, 15, Len(s)))
    IN /\ Len(s) >= 14
       /\ \A k \in 1..14 : IsDigit(SubSeq(s, k, k))
       /\ \/ rest = ""
          \/ /\ Len(rest) = 5
             /\ Head(rest) \in {"+", "-"}
             /\ \A k \in 2..5 : IsDigit(SubSeq(rest, k, k))

\* the elements of a feed whose start or stop is present and cannot be parsed
BadTimestampElements(programmes) ==
    {k \in 1..Len(programmes) :
        /\ ~Falsy(programmes[k].channel) /\ ~Falsy(programmes[k].start)
        /\ ~Falsy(programmes[k].stop)
        /\ \/ ~WellFormedTimestamp(programmes[k].start[1])
           \/ ~WellFormedTimestamp(programmes[k].stop[1])}

\* C12: a programme element whose start or stop timestamp cannot be parsed is an
\* entry failure: no program is emitted for it, one warning per such element is
\* appended to errors, and the other elements are processed as if it were absent.
C12_BadTimestampIsEntryFailure ==
    output # << >> =>
        LET bad == BadTimestampElements(input.programme)
            others == SelectSeq(input.programme,
                                LAMBDA e : \A k \in bad : input.programme[k] # e)
        IN /\ \A j \in 1..Len(output[1].programs) :
                \A k \in bad : output[1].programs[j].title # input.programme[k].title
           /\ Len(output[1].errors) = Cardinality(bad)
           /\ output[1].programs = ParseProgrammesText(others, input.now)

\* the UTC instant of a wall-clock time, in seconds since 1970-01-01T00:00:00Z,
\* counted year by year and month by month
RECURSIVE DaysToYear(_)
DaysToYear(y) ==
    IF y <= 1970 THEN 0
    ELSE DaysToYear(y - 1) + (IF InLeapYear(y - 1) THEN 366 ELSE 365)

MonthLength(y, mo) ==
    IF mo = 2 THEN (IF InLeapYear(y) THEN 29 ELSE 28)
    ELSE IF mo \in {4, 6, 9, 11} THEN 30 ELSE 31

RECURSIVE DaysToMonth(_, _)
DaysToMonth(y, mo) ==
    IF mo <= 1 THEN 0 ELSE DaysToMonth(y, mo - 1) + MonthLength(y, mo - 1)

UtcInstant(w) ==
    (DaysToYear(w.year) + DaysToMonth(w.year, w.month) + (w.day - 1)) * 86400
        + w.hour * 3600 + w.minute * 60 + w.second

\* the signed offset, in seconds
OffsetSeconds(off) ==
    IF off = << >> THEN 0
    ELSE (IF off[1].sign = "+" THEN 1 ELSE -1) * (off[1].hours * 3600 + off[1].minutes * 60)

\* C13: a timestamp T = YYYYMMDDHHMMSS with a suffix +HHMM / -HHMM parses to the
\* UTC instant of T minus the signed offset, and T without a suffix to the UTC
\* instant of T: "20240101120000 +0200" is 2024-01-01T10:00:00Z (1704103200 s),
\* "20240101120000" is 2024-01-01T12:00:00Z (1704110400 s), and a negative offset
\* gives an instant later than the UTC instant of T.
C13_TimestampToUtc ==
    (output # << >> /\ input.wall # << >>) =>
        /\ output[1] = <<UtcInstant(input.wall[1]) - OffsetSeconds(input.offset)>>
        /\ input.text = "20240101120000 +0200" => output[1] = <<1704103200>>
        /\ input.text = "20240101120000" => output[1] = <<1704110400>>
        /\ (input.offset # << >> /\ OffsetSeconds(input.offset) < 0) =>
                Greater(output[1], <<UtcInstant(input.wall[1])>>)

\* "20240101120000 +0200" has been parsed to 2024-01-01T10:00:00Z
C13_Witness ==
    /\ input.text = "20240101120000 +0200"
    /\ output = << <<1704103200>> >>

\* the stored programs of a source and channel that are on air at now
OnAir(programs, sourceId, channelId, now) ==
    {k \in 1..Len(programs) :
        /\ programs[k].epg_source_id = sourceId
        /\ programs[k].channel_id = channelId
        /\ programs[k].start_time <= now /\ now < programs[k].end_time}

\* C16: whatever refreshes have run, for every source, channel and instant now at
\* most one stored program of that source and channel has start_time <= now < end_time.
C16_AtMostOneOnAir ==
    \A s \in 1..Len(epg_sources), c \in {"bbc1", "bbc2"}, now \in 0..(MaxClock + 1) :
        Cardinality(OnAir(epg_programs, epg_sources[s].id, c, now)) <= 1

\* the programs of the requested source and channel as stored
ChannelPrograms(channelId) ==
    {epg_programs[k] : k \in {j \in 1..Len(epg_programs) :
        /\ epg_programs[j].epg_source_id = input.epgSourceId
        /\ epg_programs[j].channel_id = channelId}}

\* the slot of a channel in the returned map, << >> when the key or the slot is absent
Slot(result, channelId, slot) ==
    IF channelId \in DOMAIN result THEN result[channelId][slot] ELSE << >>

Requested == {input.channelIds[i] : i \in 1..Len(input.channelIds)}

\* C14: the now slot of a requested channel is the first program in ascending
\* start_time order with start_time <= now < end_time, also when several programs
\* of the channel are on air; it is absent exactly when none is.
C14_NowIsFirstOnAir ==
    output # << >> =>
        \A c \in Requested :
            LET onAir == {r \in ChannelPrograms(c) :
                            r.start_time <= clock /\ clock < r.end_time}
                slot == Slot(output[1], c, "now")
            IN IF onAir = {} THEN slot = << >>
               ELSE /\ slot # << >>
                    /\ slot[1] \in onAir
                    /\ \A r \in onAir : slot[1].start_time <= r.start_time

\* C15: the next slot of a requested channel is a program of minimum start_time
\* among the channel's programs with start_time > now; it is absent exactly when
\* the channel has no such program.
C15_NextIsEarliestUpcoming ==
    output # << >> =>
        \A c \in Requested :
            LET upcoming == {r \in ChannelPrograms(c) : r.start_time > clock}
                slot == Slot(output[1], c, "next")
            IN IF upcoming = {} THEN slot = << >>
               ELSE /\ slot # << >>
                    /\ slot[1] \in upcoming
                    /\ \A r \in upcoming : slot[1].start_time <= r.start_time

\* C17: the returned map has a key exactly for the requested channels that have a
\* program of the source with end_time > now; a requested channel without one is
\* absent, and the call returns a map in every case.
C17_KeysAreChannelsWithPrograms ==
    output # << >> =>
        DOMAIN output[1] =
            {c \in Requested : \E r \in ChannelPrograms(c) : r.end_time > clock}

\* two channels were requested: bbc1 has a key, bbc2, whose only program has
\* ended, has none
C17_Witness ==
    /\ output # << >>
    /\ input.channelIds = <<"bbc1", "bbc2">>
    /\ DOMAIN output[1] = {"bbc1"}
    /\ ChannelPrograms("bbc2") # {}

\* C18: the merge returns exactly one record per input channel, in the same order
\* and with the channel's own fields, and a channel whose tvg_id is absent or empty
\* carries no epg field.
C18_OneRecordPerChannel ==
    output # << >> =>
        /\ Len(output[1]) = Len(input.channels)
        /\ \A i \in 1..Len(input.channels) :
            /\ Channel(output[1][i].name, output[1][i].url, output[1][i].tvg_id)
                    = input.channels[i]
            /\ Falsy(input.channels[i].tvg_id) => output[1][i].epg = << >>

\* a list of two channels has been merged: the one without tvg_id has no epg
\* field, the other one has
C18_Witness ==
    /\ output # << >>
    /\ Len(input.channels) = 2
    /\ input.channels[1].tvg_id = << >>
    /\ output[1][1].epg = << >>
    /\ output[1][2].epg # << >>

\* the playlist was fetched and its first line is a valid header
ValidHeader == input.kind = "ok" /\ StartsWith(TrimmedLines(input.text)[1], "#EXTM3U")

IsMetadataLine(line) == StartsWith(line, "#EXTINF")

IsUrlLine(line) == ~StartsWith(line, "#") /\ isValidUrl(line)

\* the metadata or URL line that precedes line j of the playlist, 0 if none does
Preceding(lines, j) ==
    LET before == {k \in 2..(j - 1) : IsMetadataLine(lines[k]) \/ IsUrlLine(lines[k])}
    IN IF before = {} THEN 0 ELSE Greatest(before)

\* the URL lines that follow a metadata line, and those that follow none
PairedUrlLines(lines) ==
    {j \in 2..Len(lines) :
        /\ IsUrlLine(lines[j])
        /\ Preceding(lines, j) # 0
        /\ IsMetadataLine(lines[Preceding(lines, j)])}

OrphanUrlLines(lines) ==
    {j \in 2..Len(lines) : IsUrlLine(lines[j])} \ PairedUrlLines(lines)

\* the trimmed text after the last comma of a line, "" if it has no comma
NameAfterLastComma(line) ==
    IF Occurrences(line, ",") = {} THEN ""
    ELSE LET c == CHOOSE i \in Occurrences(line, ",") :
                    \A k \in (i + 1)..Len(line) : CharAt(line, k) # ","
         IN Trim(SubSeq(line, c + 1, Len(line)))

NamedUrlLines(lines) ==
    {j \in PairedUrlLines(lines) : NameAfterLastComma(lines[Preceding(lines, j)]) # ""}

\* a set of line numbers in ascending order
Ascending(S) ==
    CHOOSE f \in [1..Cardinality(S) -> S] :
        \A a, b \in 1..Cardinality(S) : a < b => f[a] < f[b]

\* the names and urls of the channels returned, and those of a list of URL lines
ReturnedChannels ==
    [k \in 1..Len(output[1].channels) |->
        <<output[1].channels[k].name, output[1].channels[k].url>>]

ChannelsOf(lines, urlLines) ==
    [k \in 1..Len(urlLines) |->
        <<NameAfterLastComma(lines[Preceding(lines, urlLines[k])]), lines[urlLines[k]]>>]

\* C19 as stated: under a valid header, every metadata line followed by a valid
\* http/https URL line yields exactly one Channel, in feed order, whose name is the
\* trimmed text after the metadata line's last comma and whose url is the URL line.
C19_EveryPairYieldsChannel ==
    (output # << >> /\ ValidHeader) =>
        LET lines == TrimmedLines(input.text)
        IN ReturnedChannels = ChannelsOf(lines, Ascending(PairedUrlLines(lines)))

\* C19 amended: under a valid header, every metadata line with a non-empty name
\* after its last comma that is followed by a valid http/https URL line yields
\* exactly one Channel, in feed order, with that name and that URL line as url; a
\* pair whose metadata line has no name yields none.
C19_EveryNamedPairYieldsChannel ==
    (output # << >> /\ ValidHeader) =>
        LET lines == TrimmedLines(input.text)
        IN ReturnedChannels = ChannelsOf(lines, Ascending(NamedUrlLines(lines)))

\* a playlist with one metadata line whose last comma follows another comma, and
\* its URL line, has given the one channel "HD"
C19_Witness ==
    /\ output # << >> /\ ValidHeader
    /\ ReturnedChannels = << <<"HD", "HTTPS://tv/2?a=1">> >>

\* str ends with suffix
EndsWith(str, suffix) ==
    Len(str) >= Len(suffix) /\ SubSeq(str, Len(str) - Len(suffix) + 1, Len(str)) = suffix

\* C20: under a valid header, each URL line without a pending metadata line and
\* each URL line whose pending metadata line has no usable name appends exactly one
\* warning that names its line number, in feed order, and yields no channel; the
\* lines after it are still parsed.
C20_DroppedEntriesWarn ==
    (output # << >> /\ ValidHeader) =>
        LET lines == TrimmedLines(input.text)
            dropped == Ascending(OrphanUrlLines(lines)
                            \cup (PairedUrlLines(lines) \ NamedUrlLines(lines)))
        IN /\ Len(output[1].errors) = Len(dropped)
           /\ \A k \in 1..Len(dropped) :
                EndsWith(output[1].errors[k], " line " \o NumberToString(dropped[k]))
           /\ ReturnedChannels = ChannelsOf(lines, Ascending(NamedUrlLines(lines)))

\* the metadata lines that no URL line follows: the next metadata or URL line is
\* another metadata line, or the feed ends
DanglingMetadataLines(lines) ==
    {i \in 2..Len(lines) :
        /\ IsMetadataLine(lines[i])
        /\ ~\E j \in PairedUrlLines(lines) : Preceding(lines, j) = i}

\* C21: under a valid header, a feed of k well-formed metadata+URL entries and one
\* metadata line that no URL line follows (before another metadata line or at the
\* end of the feed) parses to exactly k channels and exactly one entry in errors.
C21_DanglingMetadataWarns ==
    (output # << >> /\ ValidHeader) =>
        LET lines == TrimmedLines(input.text)
        IN (/\ Cardinality(DanglingMetadataLines(lines)) = 1
            /\ OrphanUrlLines(lines) = {}
            /\ NamedUrlLines(lines) = PairedUrlLines(lines))
           => /\ Len(output[1].channels) = Cardinality(PairedUrlLines(lines))
              /\ Len(output[1].errors) = 1

\* the result for a body without the header
MissingHeaderResult ==
    [channels |-> << >>, errors |-> <<"Invalid M3U file: missing #EXTM3U header">>,
     epg_url |-> << >>]

\* C22: the parser returns the missing-header result (no channels, exactly one
\* format error) if and only if the fetched body, with its leading and trailing
\* white space trimmed, does not begin with #EXTM3U; a body whose first non-blank
\* line is the header is parsed normally.
C22_HeaderOfTrimmedBody ==
    (output # << >> /\ input.kind = "ok") =>
        (output[1] = MissingHeaderResult <=> ~StartsWith(Trim(input.text), "#EXTM3U"))

\* the value refreshEPGIfNeeded resolves to: {source, refreshed, error}
IsRefreshResult(r) ==
    /\ DOMAIN r = {"source", "refreshed", "error"}
    /\ r.refreshed \in BOOLEAN
    /\ Len(r.source) <= 1 /\ Len(r.error) <= 1

\* C23: no fetch failure is raised past a component: for a response that is not
\* 2xx and for a fetch that rejects, the playlist parser returns no channel and
\* exactly one error, the guide parser returns no program and exactly one error,
\* and every ensure_fresh that ends has returned {source, refreshed, error}.
C23_FetchFailureIsReturned ==
    [][/\ output' # << >> =>
            (output'[1].channels = << >> /\ Len(output'[1].errors) = 1)
       /\ \A p \in Procs, feed \in Feeds \cup FaultFeeds :
            (feed.status # "ok" /\ Fetch(p, feed)) =>
                /\ loc'[p].result.programs = << >>
                /\ Len(loc'[p].result.errors) = 1
                /\ pc'[p] = "record_failure"
       /\ \A p \in Procs :
            (loc[p].op = "ensure" /\ pc[p] \notin {"idle", "done"} /\ pc'[p] = "done") =>
                (ret'[p] # << >> /\ IsRefreshResult(ret'[p][1]))]_vars

\* the playlist fetch has rejected and been answered with one error, and an
\* ensure_fresh whose guide fetch rejected has returned that failure
C23_Witness ==
    /\ input.kind = "throws" /\ output # << >>
    /\ Len(output[1].errors) = 1
    /\ \E p \in Procs :
          /\ pc[p] = "done" /\ loc[p].op = "ensure"
          /\ ret[p][1].refreshed = FALSE
          /\ ret[p][1].error = << <<"Error fetching XMLTV">> >>

\* C24: after POST /auth/logout has succeeded with the access token of a pair
\* (accessToken, refreshToken) that a login answered with, POST /auth/refresh with
\* that refreshToken is rejected with 'Session not found or expired' and answers
\* with no new access token.
C24_LogoutInvalidatesSession ==
    [][\A p \in Procs :
        (/\ web'[p] # web[p]
         /\ web'[p].pc = "done" /\ web'[p].route = "refresh"
         /\ \E t \in tokens : <<t.refreshToken>> = web'[p].token /\ t.loggedOut)
        => /\ web'[p].status = 401
           /\ web'[p].error = "Session not found or expired"
           /\ web'[p].accessToken = << >>]_vars

\* no user has two favorites with the same channel_url
NoDuplicateFavorites ==
    \A f, g \in favorites :
        (f.user_id = g.user_id /\ f.channel_url = g.channel_url) => f = g

\* the channel_url of the request in slot p, as createFavorite stores it, is among
\* the favorites of its user
AlreadyFavorited(p) ==
    \E f \in favorites : f.user_id = web'[p].user /\ f.channel_url = Trim(web'[p].url)

\* C25: a user never has two favorites with the same channel_url, and under any
\* interleaving of create and delete requests a POST /favorites that ends while
\* its channel_url is among the user's favorites has been rejected with 'Channel is
\* already in favorites' and has left the favorites unchanged.
C25_DuplicateFavoriteRejected ==
    [][/\ NoDuplicateFavorites'
       /\ \A p \in Procs :
            (/\ web[p].pc # "done" /\ web'[p].pc = "done"
             /\ web'[p].route = "create" /\ web'[p].status # 400
             /\ AlreadyFavorited(p))
            => /\ web'[p].status = 409
               /\ web'[p].error = "Channel is already in favorites"
               /\ favorites' = favorites]_vars

\* this step is the insert of request p being refused before any row was written
FailsBeforeInsert(p) == pc[p] = "insert" /\ loc[p].i = 0 /\ pc'[p] = "done"

\* C26: in a refresh cycle of ensure_fresh the steps follow the order prune, clear,
\* insert, stamp, and none before the stamp writes the source, so last_fetched is
\* stamped only after the bulk insert has completed; a cycle that fails between the
\* clear and the insert leaves the source with no stored program and with the
\* last_fetched it had before the refresh, so that the source is still stale (the
\* next ensure_fresh fetches again).
C26_StampAfterInsert ==
    [][\A p \in Procs :
        loc[p].op = "ensure" =>
            /\ (Leaves(p, "fetch") /\ pc'[p] # "record_failure") => pc'[p] = "cleanup"
            /\ Leaves(p, "cleanup") => pc'[p] \in {"clear", "done"}
            /\ Leaves(p, "clear") => pc'[p] \in {"insert", "stamp", "done"}
            /\ Leaves(p, "insert") => pc'[p] \in {"stamp", "done"}
            /\ (pc[p] \in {"fetch", "cleanup", "clear", "insert"} /\ StepOf(p)) =>
                    epg_sources' = epg_sources
            /\ (pc'[p] = "stamp" /\ pc[p] # "stamp") =>
                    loc'[p].i >= Len(loc'[p].result.programs)
            /\ FailsBeforeInsert(p) =>
                    LET id == loc[p].source[1].id
                    IN /\ StoredSet(epg_programs', id) = {}
                       /\ epg_sources'[id].last_fetched = loc[p].source[1].last_fetched
                       /\ shouldRefreshEPG(epg_sources'[id], clock')
    ]_vars

\* the source the operations of the input work on is stale once getOrCreateEPGSource
\* has returned it
StaleInput ==
    shouldRefreshEPG(
        getOrCreateEPGSource(input.stored.sources, input.playlistId, input.epgUrl).source,
        input.now)

\* C27: from the same stored state with a stale source and the same parse result,
\* ensure_fresh and force_refresh end in the same state (the same stored programs,
\* last_fetched and fetch_error), on success and on total failure alike: the
\* pre-prune of ensure_fresh makes no difference.
C27_EnsureEqualsForce ==
    (output # << >> /\ StaleInput) => output[1]["ensure"] = output[1]["force"]

\* a stale source that stored a program ended more than an hour ago, which only
\* ensure_fresh prunes, has been refreshed with success by both operations
C27_Witness ==
    /\ output # << >> /\ StaleInput
    /\ input.feed.status = "ok" /\ input.feed.programme # << >>
    /\ input.stored.sources # << >> /\ input.stored.sources[1].epg_url = input.epgUrl
    /\ cleanupOldPrograms(input.stored.programs, 1, input.now) # input.stored.programs
    /\ output[1]["ensure"].sources[1].last_fetched = <<input.now>>
    /\ output[1]["ensure"].programs # << >>

\* the number of rows stored for a source
StoredCount(programs, sourceId) ==
    Cardinality({j \in 1..Len(programs) : programs[j].epg_source_id = sourceId})

\* C28: when two refresh cycles for the same source overlap and both have parsed
\* the same feed with success, then once both have done their inserts (only their
\* stamps remain, which write no program) the rows stored for the source are exactly
\* the parsed set, each program stored once.
C28_OverlapStoresParsedOnce ==
    \A p, q \in Procs :
        (/\ p # q
         /\ pc[p] = "stamp" /\ pc[q] = "stamp"
         /\ loc[p].source[1].id = loc[q].source[1].id
         /\ loc[p].result = loc[q].result) =>
            LET id == loc[p].source[1].id
            IN /\ StoredSet(epg_programs, id) = ParsedSet(loc[p].result.programs, id)
               /\ StoredCount(epg_programs, id) = Len(loc[p].result.programs)

\* request p has parsed a guide with no program and no error
ParsedNothing(p) == loc[p].fetched /\ loc[p].result = NoResult

\* C29: a guide parse that yields no program and no error is treated as success:
\* ensure_fresh goes on to the prune and the clear, whose DELETE leaves no program of
\* the source, skips the insert, stamps last_fetched and returns refreshed = true,
\* leaving the source empty and fresh for the next hour.
C29_EmptyParseIsSuccess ==
    [][\A p \in Procs :
        loc[p].op = "ensure" =>
            /\ (Leaves(p, "fetch") /\ loc'[p].result = NoResult) => pc'[p] = "cleanup"
            /\ (ParsedNothing(p) /\ Leaves(p, "clear") /\ pc'[p] # "done") =>
                    /\ StoredSet(epg_programs', loc[p].source[1].id) = {}
                    /\ pc'[p] = "stamp"
            /\ (ParsedNothing(p) /\ Leaves(p, "stamp") /\ ret'[p][1].source # << >>) =>
                    LET id == loc[p].source[1].id
                    IN /\ ret'[p][1].refreshed = TRUE
                       /\ epg_sources'[id].last_fetched = <<clock>>
                       /\ StoredSet(epg_programs', id) = {}
                       /\ \A t \in clock..(clock + OneHour) :
                            ~shouldRefreshEPG(epg_sources'[id], t)
    ]_vars

\* request p found the playlist's source bound to another URL than the one it brings
Rebinds(p) == loc[p].existing # << >> /\ loc[p].existing[1].epg_url # loc[p].epgUrl

\* C30: rebinding a source to a new guide URL leaves the stored programs unchanged:
\* the UPDATE keeps the id of the source and writes no program, so the rows stored
\* under the old URL are the rows the matcher selects; the rebinding request writes
\* no program before the clear of a refresh from the new URL that succeeded; and if
\* that refresh fails the programs remain while the failure stamp makes the source
\* count as fresh.
C30_RebindKeepsPrograms ==
    [][\A p \in Procs :
        Rebinds(p) =>
            /\ Leaves(p, "rebind") =>
                    /\ epg_programs' = epg_programs
                    /\ loc'[p].source[1].id = loc[p].existing[1].id
                    /\ loc'[p].source[1].epg_url = loc[p].epgUrl
                    /\ NowNextRows(epg_programs', loc'[p].source[1].id, ChannelIds, clock)
                        = NowNextRows(epg_programs, loc[p].existing[1].id, ChannelIds, clock)
            /\ (pc[p] \in {"rebind", "fetch", "record_failure"} /\ StepOf(p)) =>
                    epg_programs' = epg_programs
            /\ Leaves(p, "record_failure") =>
                    /\ epg_programs' = epg_programs
                    /\ ~shouldRefreshEPG(epg_sources'[loc[p].source[1].id], clock)
    ]_vars

\* one request has stored programs for the source under u1 and returned; the next
\* one has rebound the source to u2, failed to fetch from there and returned the
\* failure: the programs are still stored, the matcher selects some of them, and the
\* source counts as fresh
C30_Witness ==
    \E p, q \in Procs :
        /\ p # q /\ pc[p] = "done" /\ pc[q] = "done"
        /\ loc[q].n = 1 /\ loc[q].epgUrl = "u1" /\ ret[q][1].refreshed
        /\ loc[p].n = 2 /\ loc[p].epgUrl = "u2" /\ ret[p][1].error # << >>
        /\ Len(epg_sources) = 1
        /\ epg_sources[1].epg_url = "u2"
        /\ ~shouldRefreshEPG(epg_sources[1], clock)
        /\ NowNextRows(epg_programs, 1, ChannelIds, clock) # << >>

====
